---- MODULE Spec2Model ----
(***************************************************************************)
(* A model of the OCR request engine of license-plate-v1s-main/app:        *)
(* GeminiOCR.read_text and the helpers it drives (gemini.py).              *)
(*                                                                         *)
(* Text is modelled at the level of characters: a Python str is a sequence *)
(* of one-character strings.  The Thai consonants of the plate patterns    *)
(* (U+0E01 .. U+0E2E) are written th_ko, th_kho, th_ho and the grave       *)
(* accent of a code fence is written backtick.  Confidence values are in   *)
(* hundredths (0.65 is 65), delays in milliseconds.                        *)
(***************************************************************************)
EXTENDS Integers, Sequences, FiniteSets, TLC

(***************************************************************************)
(* Bounds of the model                                                     *)
(***************************************************************************)
MaxRetries == 3      \* max_retries ranges over 1 .. MaxRetries
MaxAttempt == 6      \* attempt indexes 0 .. MaxAttempt given to _calculate_retry_delay
JitterSteps == 1     \* random.uniform draws k / JitterSteps of the jitter range
MaxTimestamp == 2    \* millisecond clock readings 1 .. MaxTimestamp
MaxMessages == 3     \* messages a consume() run takes from the topic

(***************************************************************************)
(* Characters and Python str methods                                       *)
(***************************************************************************)
LowerLetters == <<"a", "b", "c", "d", "e", "f", "g", "h", "i", "j", "k", "l", "m", "n", "o", "p", "q", "r", "s", "t", "u", "v", "w", "x", "y", "z">>

UpperLetters == <<"A", "B", "C", "D", "E", "F", "G", "H", "I", "J", "K", "L", "M", "N", "O", "P", "Q", "R", "S", "T", "U", "V", "W", "X", "Y", "Z">>

Range(f) == {f[i] : i \in DOMAIN f}

DigitChars == {"0", "1", "2", "3", "4", "5", "6", "7", "8", "9"}

ThaiChars == {"th_ko", "th_kho", "th_ho"}

WhitespaceChars == {" ", "\t", "\n", "\r"}

SetMin(S) == CHOOSE x \in S : \A y \in S : x <= y

SetMax(S) == CHOOSE x \in S : \A y \in S : x >= y

\* str.upper() and str.lower(), one character
UpperChar(c) ==
    IF c \in Range(LowerLetters)
    THEN UpperLetters[CHOOSE i \in DOMAIN LowerLetters : LowerLetters[i] = c]
    ELSE c

LowerChar(c) ==
    IF c \in Range(UpperLetters)
    THEN LowerLetters[CHOOSE i \in DOMAIN UpperLetters : UpperLetters[i] = c]
    ELSE c

StrUpper(s) == SubSeq([i \in 1..Len(s) |-> UpperChar(s[i])], 1, Len(s))

StrLower(s) == SubSeq([i \in 1..Len(s) |-> LowerChar(s[i])], 1, Len(s))

\* str.strip(): leading and trailing whitespace removed
StrStrip(s) ==
    LET keep == {i \in 1..Len(s) : s[i] \notin WhitespaceChars}
    IN  IF keep = {} THEN <<>> ELSE SubSeq(s, SetMin(keep), SetMax(keep))

\* str.strip('"')
StrStripQuotes(s) ==
    LET keep == {i \in 1..Len(s) : s[i] # "\""}
    IN  IF keep = {} THEN <<>> ELSE SubSeq(s, SetMin(keep), SetMax(keep))

\* p occurs in s at index i (1-based)
MatchesAt(s, p, i) ==
    /\ i >= 1
    /\ i + Len(p) - 1 <= Len(s)
    /\ \A k \in 1..Len(p) : s[i + k - 1] = p[k]

\* s.startswith(p)
StartsWith(s, p) == MatchesAt(s, p, 1)

EndsWith(s, p) == MatchesAt(s, p, Len(s) - Len(p) + 1)

\* "p in s"
Contains(s, p) == \E i \in 1..(Len(s) + 1) : MatchesAt(s, p, i)

Drop(s, n) == SubSeq(s, n + 1, Len(s))

\* the first index >= i of s that holds no whitespace, Len(s) + 1 when none
SkipWs(s, i) ==
    LET rest == {j \in i..Len(s) : s[j] \notin WhitespaceChars}
    IN  IF rest = {} THEN Len(s) + 1 ELSE SetMin(rest)

(***************************************************************************)
(* json.loads on the part of the JSON grammar the response texts use:      *)
(* objects, arrays, strings without escapes, numbers without exponent,     *)
(* true, false, null.  A value is a record with its Python type in t.      *)
(***************************************************************************)
JsonFail == [ok |-> FALSE]

JsonOk(v, p) == [ok |-> TRUE, val |-> v, pos |-> p]

\* a string literal opening at i: runs to the next quote; a raw control
\* character inside it is a decode error (strict mode)
ParseJsonString(s, i) ==
    LET closing == {j \in (i + 1)..Len(s) : s[j] = "\""}
    IN  IF closing = {} THEN JsonFail
        ELSE LET j == SetMin(closing)
                 body == SubSeq(s, i + 1, j - 1)
             IN  IF \E k \in 1..Len(body) : body[k] \in {"\t", "\n", "\r"}
                 THEN JsonFail
                 ELSE JsonOk([t |-> "str", v |-> body], j + 1)

\* the end of the digit run that starts at i (i itself when there is none)
DigitRunEnd(s, i) ==
    LET stops == {j \in i..Len(s) : s[j] \notin DigitChars}
    IN  IF stops = {} THEN Len(s) + 1 ELSE SetMin(stops)

\* -?(0|[1-9]\d*)(\.\d+)?
ParseJsonNumber(s, i) ==
    LET d == IF s[i] = "-" THEN i + 1 ELSE i
        e == IF d <= Len(s) /\ s[d] = "0" THEN d + 1 ELSE DigitRunEnd(s, d)
    IN  IF e = d THEN JsonFail
        ELSE IF e < Len(s) /\ s[e] = "." /\ DigitRunEnd(s, e + 1) > e + 1
             THEN JsonOk([t |-> "float"], DigitRunEnd(s, e + 1))
             ELSE JsonOk([t |-> "int"], e)

RECURSIVE ParseJsonValue(_, _)
RECURSIVE ParseJsonElements(_, _)
RECURSIVE ParseJsonMembers(_, _, _)

\* the elements of an array after "[" or ",", the first one starting at i
ParseJsonElements(s, i) ==
    LET v == ParseJsonValue(s, i)
    IN  IF ~v.ok THEN JsonFail
        ELSE LET k == SkipWs(s, v.pos)
             IN  IF k > Len(s) THEN JsonFail
                 ELSE IF s[k] = "," THEN ParseJsonElements(s, SkipWs(s, k + 1))
                 ELSE IF s[k] = "]" THEN JsonOk([t |-> "list"], k + 1)
                 ELSE JsonFail

\* the members of an object after "{" or ",", the first key starting at i;
\* acc holds the <<key, value>> pairs read so far
ParseJsonMembers(s, i, acc) ==
    IF i > Len(s) \/ s[i] # "\"" THEN JsonFail
    ELSE LET key == ParseJsonString(s, i)
         IN  IF ~key.ok THEN JsonFail
             ELSE LET c == SkipWs(s, key.pos)
                  IN  IF c > Len(s) \/ s[c] # ":" THEN JsonFail
                      ELSE LET v == ParseJsonValue(s, SkipWs(s, c + 1))
                           IN  IF ~v.ok THEN JsonFail
                               ELSE LET m == SkipWs(s, v.pos)
                                        all == Append(acc, <<key.val.v, v.val>>)
                                    IN  IF m > Len(s) THEN JsonFail
                                        ELSE IF s[m] = ","
                                        THEN ParseJsonMembers(s, SkipWs(s, m + 1), all)
                                        ELSE IF s[m] = "}"
                                        THEN JsonOk([t |-> "dict", v |-> all], m + 1)
                                        ELSE JsonFail

ParseJsonValue(s, i) ==
    IF i > Len(s) THEN JsonFail
    ELSE IF s[i] = "\"" THEN ParseJsonString(s, i)
    ELSE IF s[i] = "{"
    THEN LET j == SkipWs(s, i + 1)
         IN  IF j <= Len(s) /\ s[j] = "}"
             THEN JsonOk([t |-> "dict", v |-> <<>>], j + 1)
             ELSE ParseJsonMembers(s, j, <<>>)
    ELSE IF s[i] = "["
    THEN LET j == SkipWs(s, i + 1)
         IN  IF j <= Len(s) /\ s[j] = "]"
             THEN JsonOk([t |-> "list"], j + 1)
             ELSE ParseJsonElements(s, j)
    ELSE IF s[i] \in DigitChars \cup {"-"} THEN ParseJsonNumber(s, i)
    ELSE IF MatchesAt(s, <<"n", "u", "l", "l">>, i) THEN JsonOk([t |-> "NoneType"], i + 4)
    ELSE IF MatchesAt(s, <<"t", "r", "u", "e">>, i) THEN JsonOk([t |-> "bool"], i + 4)
    ELSE IF MatchesAt(s, <<"f", "a", "l", "s", "e">>, i) THEN JsonOk([t |-> "bool"], i + 5)
    ELSE JsonFail

\* json.loads(s): one value, whitespace around it, nothing after it;
\* ok = FALSE stands for json.JSONDecodeError
JsonLoads(s) ==
    LET v == ParseJsonValue(s, SkipWs(s, 1))
    IN  IF v.ok /\ SkipWs(s, v.pos) > Len(s) THEN v ELSE JsonFail

\* dict.get(key, default) on the pairs of an object: the last pair wins
DictGet(pairs, key, default) ==
    LET hits == {i \in 1..Len(pairs) : pairs[i][1] = key}
    IN  IF hits = {} THEN default ELSE pairs[SetMax(hits)][2]

(***************************************************************************)
(* Response parsing (gemini.py, parse_json_response, _extract_from_text)   *)
(***************************************************************************)
KeyPlate == <<"l", "i", "c", "e", "n", "s", "e", "_", "p", "l", "a", "t", "e", "_", "n", "u", "m", "b", "e", "r">>

KeyProvince == <<"p", "r", "o", "v", "i", "n", "c", "e">>

CodeFence == <<"backtick", "backtick", "backtick">>

Unreadable == <<"U", "N", "R", "E", "A", "D", "A", "B", "L", "E">>

EmptyPair == [license_plate_number |-> <<>>, province |-> <<>>]

\* str(AttributeError) of calling a missing method on a value of type ty
AttributeErrorText(ty, attr) ==
    <<"'">> \o ty \o <<"'", " ", "o", "b", "j", "e", "c", "t", " ", "h", "a", "s", " ", "n", "o", " ", "a", "t", "t", "r", "i", "b", "u", "t", "e", " ", "'">> \o attr \o <<"'">>

TypeNameText(t) ==
    CASE t = "str" -> <<"s", "t", "r">>
      [] t = "int" -> <<"i", "n", "t">>
      [] t = "float" -> <<"f", "l", "o", "a", "t">>
      [] t = "bool" -> <<"b", "o", "o", "l">>
      [] t = "NoneType" -> <<"N", "o", "n", "e", "T", "y", "p", "e">>
      [] t = "list" -> <<"l", "i", "s", "t">>
      [] t = "dict" -> <<"d", "i", "c", "t">>

\* re.sub(r'^```(?:json)?\s*', '', s) on an s that starts with the fence
StripFenceStart(s) ==
    LET a == Drop(s, 3)
        b == IF StartsWith(a, <<"j", "s", "o", "n">>) THEN Drop(a, 4) ELSE a
    IN  Drop(b, SkipWs(b, 1) - 1)

\* re.sub(r'\s*```$', '', s): a closing fence and the whitespace before it
StripFenceEnd(s) ==
    IF EndsWith(s, CodeFence)
    THEN LET a == SubSeq(s, 1, Len(s) - 3)
             keep == {i \in 1..Len(a) : a[i] \notin WhitespaceChars}
         IN  IF keep = {} THEN <<>> ELSE SubSeq(a, 1, SetMax(keep))
    ELSE s

SepChars == WhitespaceChars \cup {"\"", ":"}

ValueStopChars == {",", "\n", "\""}

\* the first index >= i of s holding a character outside (inside) a class
SepRunEnd(s, i) ==
    LET stops == {j \in i..Len(s) : s[j] \notin SepChars}
    IN  IF stops = {} THEN Len(s) + 1 ELSE SetMin(stops)

ValueRunEnd(s, i) ==
    LET stops == {j \in i..Len(s) : s[j] \in ValueStopChars}
    IN  IF stops = {} THEN Len(s) + 1 ELSE SetMin(stops)

\* the starts q of group 1 that ["\s:]+([^,\n"]+) allows when the key ends
\* just before p: one separator at least, one value character at least
GroupStarts(s, p) ==
    {q \in (p + 1)..SepRunEnd(s, p) : ValueRunEnd(s, q) > q /\ q <= Len(s)}

\* re.search(key + r'["\s:]+([^,\n"]+)', s, re.IGNORECASE): group 1 of the
\* leftmost match, the separators taken greedily; found = FALSE for None
SearchKeyValue(s, key) ==
    LET low == StrLower(s)
        at == {i \in 1..Len(s) :
                  MatchesAt(low, key, i) /\ GroupStarts(s, i + Len(key)) # {}}
    IN  IF at = {} THEN [found |-> FALSE]
        ELSE LET q == SetMax(GroupStarts(s, SetMin(at) + Len(key)))
             IN  [found |-> TRUE, group |-> SubSeq(s, q, ValueRunEnd(s, q) - 1)]

_extract_from_text(text) ==
    LET license_match == SearchKeyValue(text, KeyPlate)
        province_match == SearchKeyValue(text, KeyProvince)
    IN  [license_plate_number |->
             IF license_match.found
             THEN StrUpper(StrStripQuotes(StrStrip(license_match.group)))
             ELSE <<>>,
         province |->
             IF province_match.found
             THEN StrStripQuotes(StrStrip(province_match.group))
             ELSE <<>>]

\* .strip() on the values result.get(...) gave for the two keys, lp first
StrippedFields(lp, pv) ==
    IF lp.t # "str"
    THEN [raised |-> TRUE,
          error |-> AttributeErrorText(TypeNameText(lp.t), <<"s", "t", "r", "i", "p">>)]
    ELSE IF pv.t # "str"
    THEN [raised |-> TRUE,
          error |-> AttributeErrorText(TypeNameText(pv.t), <<"s", "t", "r", "i", "p">>)]
    ELSE [raised |-> FALSE,
          parsed |-> [license_plate_number |-> StrUpper(StrStrip(lp.v)),
                      province |-> StrStrip(pv.v)]]

\* the lines after result = json.loads(clean_text); result.ok = FALSE is
\* the except json.JSONDecodeError branch
FromJsonResult(text, result) ==
    IF ~result.ok
    THEN [raised |-> FALSE, parsed |-> _extract_from_text(text)]
    ELSE IF result.val.t # "dict"
    THEN [raised |-> TRUE,
          error |-> AttributeErrorText(TypeNameText(result.val.t), <<"g", "e", "t">>)]
    ELSE StrippedFields(DictGet(result.val.v, KeyPlate, [t |-> "str", v |-> <<>>]),
                        DictGet(result.val.v, KeyProvince, [t |-> "str", v |-> <<>>]))

\* clean_text with only the opening fence removed: a faulty variant, for
\* comparison
CleanTextKeepingFenceEnd(stripped) ==
    IF StartsWith(stripped, CodeFence)
    THEN StripFenceStart(stripped)
    ELSE stripped

\* clean_text: text.strip() without its code fence
CleanText(stripped) ==
    IF StartsWith(stripped, CodeFence)
    THEN StripFenceEnd(StripFenceStart(stripped))
    ELSE stripped

\* parse_json_response(text): raised = TRUE when an exception other than
\* json.JSONDecodeError leaves it, error being str() of that exception
parse_json_response(text) ==
    IF text = <<>> THEN [raised |-> FALSE, parsed |-> EmptyPair]
    ELSE FromJsonResult(text, JsonLoads(CleanText(StrStrip(text))))

(***************************************************************************)
(* Confidence (gemini.py, estimate_confidence_from_json), in hundredths    *)
(***************************************************************************)
PlateSepChars == WhitespaceChars \cup {"-"}

\* \d{3,4} can start at i
DigitsAt(s, i) == i + 2 <= Len(s) /\ \A k \in 0..2 : s[i + k] \in DigitChars

\* [\s\-]?\d{3,4} can start at i
PlateTailAt(s, i) ==
    \/ DigitsAt(s, i)
    \/ i <= Len(s) /\ s[i] \in PlateSepChars /\ DigitsAt(s, i + 1)

\* re.search(r'[th]{1,3}[\s\-]?\d{3,4}', s)
thai_pattern(s) ==
    \E i \in 1..Len(s) : s[i] \in ThaiChars /\ PlateTailAt(s, i + 1)

\* re.search(r'[A-Z]{2,3}[\s\-]?\d{3,4}', s)
english_pattern(s) ==
    \E i \in 1..(Len(s) - 1) :
        /\ s[i] \in Range(UpperLetters)
        /\ s[i + 1] \in Range(UpperLetters)
        /\ PlateTailAt(s, i + 2)

\* re.search(r'\d[th]{2}[\s\-]?\d{3,4}', s)
new_format_pattern(s) ==
    \E i \in 1..(Len(s) - 2) :
        /\ s[i] \in DigitChars
        /\ s[i + 1] \in ThaiChars
        /\ s[i + 2] \in ThaiChars
        /\ PlateTailAt(s, i + 3)

Min(a, b) == IF a <= b THEN a ELSE b

\* estimate_confidence_from_json with the province bonus given to short
\* plates too: a faulty variant, for comparison
estimate_confidence_bonus_on_short(parsed_result) ==
    LET license_plate == parsed_result.license_plate_number
        province == parsed_result.province
    IN  IF license_plate = <<>> \/ Contains(StrUpper(license_plate), Unreadable)
        THEN 0
        ELSE LET confidence ==
                     IF Len(license_plate) < 3 THEN 30
                     ELSE IF \/ thai_pattern(license_plate)
                             \/ english_pattern(license_plate)
                             \/ new_format_pattern(license_plate)
                     THEN 80 ELSE 50
             IN  IF province # <<>> /\ province # Unreadable /\ Len(province) > 2
                 THEN Min(confidence + 15, 100)
                 ELSE confidence

\* estimate_confidence_from_json with the UNREADABLE test left out: a faulty
\* variant, for comparison
estimate_confidence_without_sentinel(parsed_result) ==
    LET license_plate == parsed_result.license_plate_number
        province == parsed_result.province
    IN  IF license_plate = <<>> THEN 0
        ELSE IF Len(license_plate) < 3 THEN 30
        ELSE LET confidence ==
                     IF \/ thai_pattern(license_plate)
                        \/ english_pattern(license_plate)
                        \/ new_format_pattern(license_plate)
                     THEN 80 ELSE 50
             IN  IF province # <<>> /\ province # Unreadable /\ Len(province) > 2
                 THEN Min(confidence + 15, 100)
                 ELSE confidence

estimate_confidence_from_json(parsed_result) ==
    LET license_plate == parsed_result.license_plate_number
        province == parsed_result.province
    IN  IF license_plate = <<>> \/ Contains(StrUpper(license_plate), Unreadable)
        THEN 0
        ELSE IF Len(license_plate) < 3 THEN 30
        ELSE LET confidence ==
                     IF \/ thai_pattern(license_plate)
                        \/ english_pattern(license_plate)
                        \/ new_format_pattern(license_plate)
                     THEN 80 ELSE 50
             IN  IF province # <<>> /\ province # Unreadable /\ Len(province) > 2
                 THEN Min(confidence + 15, 100)
                 ELSE confidence

(***************************************************************************)
(* Backoff (gemini.py, _is_overload_error, _calculate_retry_delay)         *)
(***************************************************************************)
overload_keywords ==
    {<<"5", "0", "3">>, <<"o", "v", "e", "r", "l", "o", "a", "d", "e", "d">>, <<"u", "n", "a", "v", "a", "i", "l", "a", "b", "l", "e">>,
     <<"r", "e", "s", "o", "u", "r", "c", "e", " ", "e", "x", "h", "a", "u", "s", "t", "e", "d">>, <<"q", "u", "o", "t", "a", " ", "e", "x", "c", "e", "e", "d", "e", "d">>, <<"r", "a", "t", "e", " ", "l", "i", "m", "i", "t">>}

\* _is_overload_error without .lower(): a faulty variant, for comparison
is_overload_error_case_sensitive(error) ==
    \E keyword \in overload_keywords : Contains(error, keyword)

_is_overload_error(error) ==
    \E keyword \in overload_keywords : Contains(StrLower(error), keyword)

RECURSIVE Pow(_, _)
Pow(b, n) == IF n = 0 THEN 1 ELSE b * Pow(b, n - 1)

\* initial_retry_delay * base ** attempt in milliseconds, 2.5 being 5/2
BaseDelay(initial, attempt, is_overload) ==
    IF is_overload
    THEN (initial * Pow(5, attempt)) \div Pow(2, attempt)
    ELSE initial * Pow(2, attempt)

\* _calculate_retry_delay without the cap of 60 seconds: a faulty variant,
\* for comparison
calculate_retry_delay_uncapped(initial, attempt, is_overload, k) ==
    BaseDelay(initial, attempt, is_overload)
        + (BaseDelay(initial, attempt, is_overload) * k) \div (4 * JitterSteps)

\* the delay for the draw random.uniform(0, 0.25 * base_delay) =
\* (k / JitterSteps) * 0.25 * base_delay, 0 <= k <= JitterSteps
_calculate_retry_delay(initial, attempt, is_overload, k) ==
    LET base_delay == BaseDelay(initial, attempt, is_overload)
        jitter == (base_delay * k) \div (4 * JitterSteps)
        delay == base_delay + jitter
    IN  Min(delay, 60000)

(***************************************************************************)
(* The environment: what the remote API, the file system and the image     *)
(* library can answer                                                      *)
(***************************************************************************)
None == <<>>

Some(x) == <<x>>

\* str(e) of the exceptions client.models.generate_content raises
ApiErrorTexts == {<<"5", "0", "3", " ", "U", "N", "A", "V", "A", "I", "L", "A", "B", "L", "E">>, <<"t", "i", "m", "e", "d", " ", "o", "u", "t">>}

\* the values of response.text: None, or a text
ResponseTexts ==
    {<<"{", "\"", "l", "i", "c", "e", "n", "s", "e", "_", "p", "l", "a", "t", "e", "_", "n", "u", "m", "b", "e", "r", "\"", ":", " ", "\"", "th_ko", "th_kho", " ", "1", "2", "3", "4", "\"", ",", " ", "\"", "p", "r", "o", "v", "i", "n", "c", "e", "\"", ":", " ", "\"", "C", "h", "i", "a", "n", "g", " ", "R", "a", "i", "\"", "}">>,
     <<"backtick", "backtick", "backtick", "j", "s", "o", "n", "\n", "{", "\"", "l", "i", "c", "e", "n", "s", "e", "_", "p", "l", "a", "t", "e", "_", "n", "u", "m", "b", "e", "r", "\"", ":", " ", "\"", "th_ko", "th_kho", " ", "1", "2", "3", "4", "\"", ",", " ", "\"", "p", "r", "o", "v", "i", "n", "c", "e", "\"", ":", " ", "\"", "C", "h", "i", "a", "n", "g", " ", "R", "a", "i", "\"", "}", "\n", "backtick", "backtick", "backtick">>,
     <<"{", "\"", "l", "i", "c", "e", "n", "s", "e", "_", "p", "l", "a", "t", "e", "_", "n", "u", "m", "b", "e", "r", "\"", ":", " ", "\"", "u", "n", "r", "e", "a", "d", "a", "b", "l", "e", "\"", ",", " ", "\"", "p", "r", "o", "v", "i", "n", "c", "e", "\"", ":", " ", "\"", "U", "N", "R", "E", "A", "D", "A", "B", "L", "E", "\"", "}">>,
     <<"{", "\"", "l", "i", "c", "e", "n", "s", "e", "_", "p", "l", "a", "t", "e", "_", "n", "u", "m", "b", "e", "r", "\"", ":", " ", "\"", "a", "b", "\"", ",", " ", "\"", "p", "r", "o", "v", "i", "n", "c", "e", "\"", ":", " ", "\"", "X", "\"", "}">>,
     <<"{", "\"", "l", "i", "c", "e", "n", "s", "e", "_", "p", "l", "a", "t", "e", "_", "n", "u", "m", "b", "e", "r", "\"", ":", " ", "\"", "a", "b", "-", "1", "2", "?", "\"", ",", " ", "\"", "p", "r", "o", "v", "i", "n", "c", "e", "\"", ":", " ", "\"", "\"", "}">>,
     <<"{", "\"", "l", "i", "c", "e", "n", "s", "e", "_", "p", "l", "a", "t", "e", "_", "n", "u", "m", "b", "e", "r", "\"", ":", " ", "1", "2", "3", "4", ",", " ", "\"", "p", "r", "o", "v", "i", "n", "c", "e", "\"", ":", " ", "n", "u", "l", "l", "}">>,
     <<"[", "]">>,
     <<"l", "i", "c", "e", "n", "s", "e", "_", "p", "l", "a", "t", "e", "_", "n", "u", "m", "b", "e", "r", ":", " ", "\"", "A", "B", " ", "1", "2", "3", "4", "\"">>,
     <<"S", "o", "r", "r", "y", ",", " ", "n", "o", " ", "p", "l", "a", "t", "e", ".">>,
     <<" ", "\n">>,
     <<>>}

ApiOutcomes ==
    [kind : {"error"}, text : ApiErrorTexts]
        \cup [kind : {"response"}, text : {None} \cup {Some(t) : t \in ResponseTexts}]

\* str(e) of what preprocess_image raises (cv2.cvtColor, Image.fromarray)
PreprocessErrorText == <<"c", "v", "2", ".", "e", "r", "r", "o", "r">>

\* str(e) of what Image.open raises for a path that holds no file
OpenErrorText(path) == <<"[", "E", "r", "r", "n", "o", " ", "2", "]", " ", "N", "o", " ", "s", "u", "c", "h", " ", "f", "i", "l", "e", " ", "o", "r", " ", "d", "i", "r", "e", "c", "t", "o", "r", "y", ":", " ", "'">> \o path \o <<"'">>

OriginalFilenames == {<<"c", "a", "r", ".", "j", "p", "g">>}

DetectionIds == {1}

\* the read_text calls in flight at a time
CallIds == {"call"}

\* initial_retry_delay as GeminiOCR.__init__ defaults it, in milliseconds
DefaultInitialRetryDelay == 3000

model_name == "gemini-model"

DigitText == <<"0", "1", "2", "3", "4", "5", "6", "7", "8", "9">>

\* str(n), n >= 0
RECURSIVE IntText(_)
IntText(n) ==
    IF n < 10 THEN <<DigitText[n + 1]>>
    ELSE IntText(n \div 10) \o <<DigitText[(n % 10) + 1]>>

\* Path(name).stem for a name without directories
PathStem(name) ==
    LET dots == {i \in 1..Len(name) : name[i] = "."}
    IN  IF dots # {} /\ SetMax(dots) > 1 /\ SetMax(dots) < Len(name)
        THEN SubSeq(name, 1, SetMax(dots) - 1)
        ELSE name

\* the file name save_temp_image builds, under temp_dir
CropFilename(original_filename, detection_id, timestamp) ==
    PathStem(original_filename) \o <<"_", "p", "l", "a", "t", "e", "_">> \o IntText(detection_id)
        \o <<"_">> \o IntText(timestamp) \o <<".", "j", "p", "g">>

(***************************************************************************)
(* State                                                                   *)
(***************************************************************************)
VARIABLES
    use_image_url,        \* self.use_image_url
    max_retries,          \* self.max_retries
    initial_retry_delay,  \* self.initial_retry_delay, in milliseconds
    temp_crops,           \* the names of the files in self.temp_dir
    crop_writer,          \* for each file in self.temp_dir, the call that wrote it last
    call,                 \* the read_text calls: their locals and position
    delays,               \* the latest results of _calculate_retry_delay
    applied,              \* the latest application of a helper: arguments and result
    detecting,            \* the _process_detections run in progress, if any
    detections,           \* its list of detection entries
    batch,                \* the latest POST /detect/batch request and its answer
    consumer              \* the Kafka consume() coroutine: position and log

vars == <<use_image_url, max_retries, initial_retry_delay, temp_crops, crop_writer,
          call, delays, applied, detecting, detections, batch, consumer>>

\* the variables outside the engine's calls
\* the variables of the HTTP service and of the Kafka consumer
service_vars == <<batch, consumer>>

other_vars == <<applied, detecting, detections, service_vars>>

\* consume() has not been called
NotCreated ==
    [pc |-> "not_created", started |-> FALSE, stop_called |-> FALSE,
     ended_by |-> "nothing", log |-> <<>>]

\* A call that has not started.  history is the call's observable trace, one
\* entry per crop write, attempt and backoff sleep; answer is what the
\* environment answered to the latest attempt; crop_from is the call whose
\* crop the latest Image.open(image_path) found in the file.
IdleCall ==
    [pc |-> "idle", detection_id |-> None, original_filename |-> None,
     fallback |-> FALSE, temp_path |-> None, attempt |-> 0,
     last_error |-> None, is_overload |-> FALSE, wait_time |-> 0,
     result |-> None, raised |-> None, history |-> <<>>, answer |-> None,
     crop_from |-> None]

Init ==
    /\ use_image_url \in BOOLEAN
    /\ max_retries \in 1..MaxRetries
    /\ initial_retry_delay = DefaultInitialRetryDelay
    /\ temp_crops = {}
    /\ crop_writer = {}
    /\ call = [c \in CallIds |-> IdleCall]
    /\ delays = None
    /\ applied = None
    /\ detecting = None
    /\ detections = <<>>
    /\ batch = None
    /\ consumer = NotCreated

\* result[key] = value on a dict
SetKey(d, key, value) == (key :> value) @@ d

\* str(last_error)
ErrorText(last_error) == IF last_error = None THEN <<"N", "o", "n", "e">> ELSE last_error[1]

(***************************************************************************)
(* read_text: mode selection                                               *)
(***************************************************************************)
\* read_text without the test of self.use_image_url: a faulty variant, for
\* comparison
ReadTextIgnoringPreference(c, detection_id, original_filename) ==
    /\ call[c].pc = "idle"
    /\ LET started == [IdleCall EXCEPT !.detection_id = detection_id,
                                       !.original_filename = original_filename]
       IN  IF detection_id = None \/ original_filename = None
           THEN call' = [call EXCEPT ![c] =
                    [started EXCEPT !.pc = "preprocess", !.fallback = TRUE]]
           ELSE call' = [call EXCEPT ![c] = [started EXCEPT !.pc = "save"]]
    /\ UNCHANGED <<use_image_url, max_retries, initial_retry_delay, temp_crops, crop_writer, delays, other_vars>>

ReadText(c, detection_id, original_filename) ==
    /\ call[c].pc = "idle"
    /\ LET started == [IdleCall EXCEPT !.detection_id = detection_id,
                                       !.original_filename = original_filename]
       IN  IF use_image_url
           THEN IF detection_id = None \/ original_filename = None
                THEN call' = [call EXCEPT ![c] =
                         [started EXCEPT !.pc = "preprocess", !.fallback = TRUE]]
                ELSE call' = [call EXCEPT ![c] = [started EXCEPT !.pc = "save"]]
           ELSE call' = [call EXCEPT ![c] = [started EXCEPT !.pc = "preprocess"]]
    /\ UNCHANGED <<use_image_url, max_retries, initial_retry_delay, temp_crops, crop_writer, delays, other_vars>>

\* save_temp_image, then either the start of _call_gemini_with_url or, when
\* it raised, the except branch of read_text.  cv2.imwrite reports a file it
\* could not write by returning False, which the code does not look at.
SaveTempImage(c, timestamp, outcome) ==
    /\ call[c].pc = "save"
    /\ LET filepath == CropFilename(call[c].original_filename[1],
                                    call[c].detection_id[1], timestamp)
           entry == [ev |-> "save", outcome |-> outcome, timestamp |-> timestamp]
       IN  /\ temp_crops' = IF outcome = "written"
                            THEN temp_crops \cup {filepath} ELSE temp_crops
           /\ crop_writer' = IF outcome = "written"
                             THEN {w \in crop_writer : w[1] # filepath}
                                      \cup {<<filepath, c>>}
                             ELSE crop_writer
           /\ call' = [call EXCEPT ![c] =
                  IF outcome = "raised"
                  THEN [@ EXCEPT !.pc = "preprocess", !.fallback = TRUE,
                                 !.history = Append(@, entry)]
                  ELSE [@ EXCEPT !.pc = "url_attempt", !.temp_path = Some(filepath),
                                 !.attempt = 0, !.last_error = None,
                                 !.history = Append(@, entry)]]
    /\ UNCHANGED <<use_image_url, max_retries, initial_retry_delay, delays, other_vars>>

(***************************************************************************)
(* One attempt: the body of the try block of either retry loop, from the   *)
(* answer of generate_content on                                           *)
(***************************************************************************)
\* the lines after raw_text = response.text.strip()
FromRawText(raw_text, parsed_result) ==
    IF parsed_result.raised
    THEN [failed |-> TRUE, error |-> parsed_result.error]
    ELSE [failed |-> FALSE,
          raw_text |-> raw_text,
          parsed |-> parsed_result.parsed,
          confidence |-> estimate_confidence_from_json(parsed_result.parsed)]

TryBody(outcome) ==
    IF outcome.kind = "error"
    THEN [failed |-> TRUE, error |-> outcome.text]
    ELSE IF outcome.text = None
    THEN [failed |-> TRUE,
          error |-> AttributeErrorText(TypeNameText("NoneType"), <<"s", "t", "r", "i", "p">>)]
    ELSE FromRawText(StrStrip(outcome.text[1]),
                     parse_json_response(StrStrip(outcome.text[1])))

\* TryBody of every answer
TryBodyPairs == {<<o, TryBody(o)>> : o \in ApiOutcomes}

TryBodyOf(o) == (CHOOSE p \in TryBodyPairs : p[1] = o)[2]

AttemptEntry(mode, attempt, api, failed) ==
    [ev |-> "attempt", mode |-> mode, attempt |-> attempt, api |-> api,
     failed |-> failed]

\* what Image.open answers for a path that holds no file
OpenOutcome(path) == [kind |-> "open_error", text |-> OpenErrorText(path)]

(***************************************************************************)
(* _call_gemini_with_url and the lines of read_text after it               *)
(***************************************************************************)
\* the success record without result["mode"] = "url": a faulty variant, for
\* comparison
UrlSuccessResultWithoutMode(body, attempt, temp_path) ==
    SetKey(
        [license_plate_number |-> body.parsed.license_plate_number,
         province |-> body.parsed.province,
         confidence |-> body.confidence,
         raw_response |-> body.raw_text,
         model |-> model_name,
         attempts |-> attempt + 1,
         text |-> body.parsed.license_plate_number],
        "image_path", temp_path)

\* the success record counting the attempts from 0: a faulty variant, for
\* comparison
UrlSuccessResultCountingFromZero(body, attempt, temp_path) ==
    SetKey(SetKey(
        [license_plate_number |-> body.parsed.license_plate_number,
         province |-> body.parsed.province,
         confidence |-> body.confidence,
         raw_response |-> body.raw_text,
         model |-> model_name,
         attempts |-> attempt,
         text |-> body.parsed.license_plate_number],
        "image_path", temp_path), "mode", "url")

UrlSuccessResult(body, attempt, temp_path) ==
    SetKey(SetKey(
        [license_plate_number |-> body.parsed.license_plate_number,
         province |-> body.parsed.province,
         confidence |-> body.confidence,
         raw_response |-> body.raw_text,
         model |-> model_name,
         attempts |-> attempt + 1,
         text |-> body.parsed.license_plate_number],
        "image_path", temp_path), "mode", "url")

UrlExhaustedResult(last_error, temp_path) ==
    SetKey(SetKey(
        [license_plate_number |-> <<>>,
         province |-> <<>>,
         text |-> <<>>,
         confidence |-> 0,
         error |-> ErrorText(last_error),
         model |-> model_name,
         attempts |-> max_retries],
        "image_path", temp_path), "mode", "url")

\* the except branch with an overload classification that, once set by a
\* failure, stays for the later failures of the call: a faulty variant, for
\* comparison
UrlFailureStickyOverload(c, api, error) ==
    LET entry == AttemptEntry("url", call[c].attempt, api, TRUE)
        sticky == call[c].is_overload \/ _is_overload_error(error)
    IN  IF call[c].attempt < max_retries - 1
        THEN [call[c] EXCEPT !.pc = "url_sleep", !.last_error = Some(error),
                             !.is_overload = sticky,
                             !.history = Append(@, entry)]
        ELSE [call[c] EXCEPT !.pc = "returned", !.last_error = Some(error),
                             !.is_overload = sticky,
                             !.history = Append(@, entry),
                             !.result = Some(UrlExhaustedResult(Some(error),
                                                                call[c].temp_path[1]))]

\* the except branch of the loop for a failure described by error
UrlFailure(c, api, error) ==
    LET entry == AttemptEntry("url", call[c].attempt, api, TRUE)
    IN  IF call[c].attempt < max_retries - 1
        THEN [call[c] EXCEPT !.pc = "url_sleep", !.last_error = Some(error),
                             !.is_overload = _is_overload_error(error),
                             !.history = Append(@, entry)]
        ELSE [call[c] EXCEPT !.pc = "returned", !.last_error = Some(error),
                             !.is_overload = _is_overload_error(error),
                             !.history = Append(@, entry),
                             !.result = Some(UrlExhaustedResult(Some(error),
                                                                call[c].temp_path[1]))]

\* the call that wrote the file at path last
CropWriter(path) == (CHOOSE w \in crop_writer : w[1] = path)[2]

UrlAttempt(c, outcome) ==
    /\ call[c].pc = "url_attempt"
    /\ IF call[c].temp_path[1] \notin temp_crops
       THEN call' = [call EXCEPT ![c] =
                [UrlFailure(c, FALSE, OpenErrorText(call[c].temp_path[1]))
                     EXCEPT !.answer = Some(OpenOutcome(call[c].temp_path[1]))]]
       ELSE LET body == TryBodyOf(outcome)
                from == Some(CropWriter(call[c].temp_path[1]))
            IN  IF body.failed
                THEN call' = [call EXCEPT ![c] =
                         [UrlFailure(c, TRUE, body.error) EXCEPT !.answer = Some(outcome),
                                                                 !.crop_from = from]]
                ELSE call' = [call EXCEPT ![c] =
                         [@ EXCEPT !.pc = "returned",
                                   !.answer = Some(outcome),
                                   !.crop_from = from,
                                   !.history = Append(@,
                                       AttemptEntry("url", call[c].attempt, TRUE, FALSE)),
                                   !.result = Some(UrlSuccessResult(body, call[c].attempt,
                                                                    call[c].temp_path[1]))]]
    /\ UNCHANGED <<use_image_url, max_retries, initial_retry_delay, temp_crops, crop_writer, delays, other_vars>>

SleepEntry(c) ==
    [ev |-> "sleep", attempt |-> call[c].attempt, is_overload |-> call[c].is_overload,
     base |-> BaseDelay(initial_retry_delay, call[c].attempt, call[c].is_overload)]

\* time.sleep(wait_time) and the step of the loop to the next attempt
UrlSleep(c, k) ==
    /\ call[c].pc = "url_sleep"
    /\ call' = [call EXCEPT ![c] =
           [@ EXCEPT !.pc = "url_attempt",
                     !.wait_time = _calculate_retry_delay(initial_retry_delay,
                                       call[c].attempt, call[c].is_overload, k),
                     !.attempt = @ + 1,
                     !.history = Append(@, SleepEntry(c))]]
    /\ UNCHANGED <<use_image_url, max_retries, initial_retry_delay, temp_crops, crop_writer, delays, other_vars>>

(***************************************************************************)
(* _call_gemini_with_base64 and _fallback_to_base64                        *)
(***************************************************************************)
\* result["fallback"] = True when the loop runs under _fallback_to_base64
WithFallback(result, fallback) ==
    IF fallback THEN SetKey(result, "fallback", TRUE) ELSE result

\* the success record reporting max_retries attempts whatever the index of
\* the attempt that succeeded: a faulty variant, for comparison
Base64SuccessResultCountingAll(body, attempt) ==
    [license_plate_number |-> body.parsed.license_plate_number,
     province |-> body.parsed.province,
     confidence |-> body.confidence,
     raw_response |-> body.raw_text,
     model |-> model_name,
     attempts |-> max_retries,
     mode |-> "base64",
     text |-> body.parsed.license_plate_number]

Base64SuccessResult(body, attempt) ==
    [license_plate_number |-> body.parsed.license_plate_number,
     province |-> body.parsed.province,
     confidence |-> body.confidence,
     raw_response |-> body.raw_text,
     model |-> model_name,
     attempts |-> attempt + 1,
     mode |-> "base64",
     text |-> body.parsed.license_plate_number]

Base64ExhaustedResult(last_error) ==
    [license_plate_number |-> <<>>,
     province |-> <<>>,
     text |-> <<>>,
     confidence |-> 0,
     error |-> ErrorText(last_error),
     model |-> model_name,
     attempts |-> max_retries,
     mode |-> "base64"]

\* preprocess_image, outside the try block: what it raises leaves read_text
Preprocess(c, ok) ==
    /\ call[c].pc = "preprocess"
    /\ call' = [call EXCEPT ![c] =
           IF ok
           THEN [@ EXCEPT !.pc = "base64_attempt", !.attempt = 0, !.last_error = None]
           ELSE [@ EXCEPT !.pc = "raised", !.raised = Some(PreprocessErrorText)]]
    /\ UNCHANGED <<use_image_url, max_retries, initial_retry_delay, temp_crops, crop_writer, delays, other_vars>>

\* the except branch sleeping after the last attempt as after the others: a
\* faulty variant, for comparison
Base64FailureAlwaysSleeping(c, error) ==
    [call[c] EXCEPT !.pc = "base64_sleep", !.last_error = Some(error),
                    !.is_overload = _is_overload_error(error),
                    !.history = Append(@,
                        AttemptEntry("base64", call[c].attempt, TRUE, TRUE))]

\* the except branch with last_error set by the first failure only: a
\* faulty variant, for comparison
Base64FailureKeepingFirst(c, error) ==
    LET entry == AttemptEntry("base64", call[c].attempt, TRUE, TRUE)
        kept == IF call[c].last_error = None THEN Some(error) ELSE call[c].last_error
    IN  IF call[c].attempt < max_retries - 1
        THEN [call[c] EXCEPT !.pc = "base64_sleep", !.last_error = kept,
                             !.is_overload = _is_overload_error(error),
                             !.history = Append(@, entry)]
        ELSE [call[c] EXCEPT !.pc = "returned", !.last_error = kept,
                             !.is_overload = _is_overload_error(error),
                             !.history = Append(@, entry),
                             !.result = Some(WithFallback(
                                 Base64ExhaustedResult(kept), call[c].fallback))]

\* the except branch retrying overload failures only, any other failure
\* ending the loop: a faulty variant, for comparison
Base64FailureRetryingOverloadOnly(c, error) ==
    LET entry == AttemptEntry("base64", call[c].attempt, TRUE, TRUE)
    IN  IF call[c].attempt < max_retries - 1 /\ _is_overload_error(error)
        THEN [call[c] EXCEPT !.pc = "base64_sleep", !.last_error = Some(error),
                             !.is_overload = _is_overload_error(error),
                             !.history = Append(@, entry)]
        ELSE [call[c] EXCEPT !.pc = "returned", !.last_error = Some(error),
                             !.is_overload = _is_overload_error(error),
                             !.history = Append(@, entry),
                             !.result = Some(WithFallback(
                                 Base64ExhaustedResult(Some(error)), call[c].fallback))]

Base64Failure(c, error) ==
    LET entry == AttemptEntry("base64", call[c].attempt, TRUE, TRUE)
    IN  IF call[c].attempt < max_retries - 1
        THEN [call[c] EXCEPT !.pc = "base64_sleep", !.last_error = Some(error),
                             !.is_overload = _is_overload_error(error),
                             !.history = Append(@, entry)]
        ELSE [call[c] EXCEPT !.pc = "returned", !.last_error = Some(error),
                             !.is_overload = _is_overload_error(error),
                             !.history = Append(@, entry),
                             !.result = Some(WithFallback(
                                 Base64ExhaustedResult(Some(error)), call[c].fallback))]

Base64Attempt(c, outcome) ==
    /\ call[c].pc = "base64_attempt"
    /\ LET body == TryBodyOf(outcome)
       IN  IF body.failed
           THEN call' = [call EXCEPT ![c] =
                    [Base64Failure(c, body.error) EXCEPT !.answer = Some(outcome)]]
           ELSE call' = [call EXCEPT ![c] =
                    [@ EXCEPT !.pc = "returned",
                              !.answer = Some(outcome),
                              !.history = Append(@,
                                  AttemptEntry("base64", call[c].attempt, TRUE, FALSE)),
                              !.result = Some(WithFallback(
                                  Base64SuccessResult(body, call[c].attempt),
                                  call[c].fallback))]]
    /\ UNCHANGED <<use_image_url, max_retries, initial_retry_delay, temp_crops, crop_writer, delays, other_vars>>

Base64Sleep(c, k) ==
    /\ call[c].pc = "base64_sleep"
    /\ call' = [call EXCEPT ![c] =
           [@ EXCEPT !.pc = "base64_attempt",
                     !.wait_time = _calculate_retry_delay(initial_retry_delay,
                                       call[c].attempt, call[c].is_overload, k),
                     !.attempt = @ + 1,
                     !.history = Append(@, SleepEntry(c))]]
    /\ UNCHANGED <<use_image_url, max_retries, initial_retry_delay, temp_crops, crop_writer, delays, other_vars>>

\* client.models.generate_content gets no answer.  The request is made
\* without a timeout (self.timeout is stored by __init__ and read nowhere),
\* so the attempt stays in the call.
NoAnswer == [kind |-> "no_answer"]

GenerateContentBlocks(c) ==
    /\ \/ call[c].pc = "base64_attempt"
       \/ call[c].pc = "url_attempt" /\ call[c].temp_path[1] \in temp_crops
    /\ call' = [call EXCEPT ![c] =
           [@ EXCEPT !.pc = "blocked",
                     !.answer = Some(NoAnswer),
                     !.crop_from = IF call[c].pc = "url_attempt"
                                   THEN Some(CropWriter(call[c].temp_path[1]))
                                   ELSE @]]
    /\ UNCHANGED <<use_image_url, max_retries, initial_retry_delay, temp_crops, crop_writer, delays, other_vars>>

\* the caller takes the record (or the exception); the engine is free again
Return(c) ==
    /\ call[c].pc \in {"returned", "raised"}
    /\ call' = [call EXCEPT ![c] = IdleCall]
    /\ UNCHANGED <<use_image_url, max_retries, initial_retry_delay, temp_crops, crop_writer, delays, other_vars>>

Next ==
    \E c \in CallIds :
        \/ \E d \in {None} \cup {Some(i) : i \in DetectionIds},
              f \in {None} \cup {Some(n) : n \in OriginalFilenames} : ReadText(c, d, f)
        \/ \E ts \in 1..MaxTimestamp, o \in {"written", "not_written", "raised"} :
              SaveTempImage(c, ts, o)
        \/ \E o \in ApiOutcomes : UrlAttempt(c, o)
        \/ \E k \in 0..JitterSteps : UrlSleep(c, k)
        \/ \E ok \in BOOLEAN : Preprocess(c, ok)
        \/ \E o \in ApiOutcomes : Base64Attempt(c, o)
        \/ \E k \in 0..JitterSteps : Base64Sleep(c, k)
        \/ GenerateContentBlocks(c)
        \/ Return(c)

Spec == Init /\ [][Next]_vars

(***************************************************************************)
(* _calculate_retry_delay on its own: an engine built with any of the      *)
(* initial delays computes the delay of an attempt index and of the next   *)
(* index, each with a jitter draw of its own                               *)
(***************************************************************************)
InitialRetryDelays == {1000, DefaultInitialRetryDelay, 5000}

InitDelay ==
    /\ use_image_url \in BOOLEAN
    /\ max_retries \in 1..MaxRetries
    /\ initial_retry_delay \in InitialRetryDelays
    /\ temp_crops = {}
    /\ crop_writer = {}
    /\ call = [c \in CallIds |-> IdleCall]
    /\ delays = None
    /\ applied = None
    /\ detecting = None
    /\ detections = <<>>
    /\ batch = None
    /\ consumer = NotCreated

CalculateRetryDelays(attempt, is_overload, k1, k2) ==
    /\ delays' = Some([attempt |-> attempt, is_overload |-> is_overload,
                       delay |-> _calculate_retry_delay(initial_retry_delay,
                                     attempt, is_overload, k1),
                       next_delay |-> _calculate_retry_delay(initial_retry_delay,
                                          attempt + 1, is_overload, k2)])
    /\ UNCHANGED <<use_image_url, max_retries, initial_retry_delay, temp_crops, crop_writer, call, other_vars>>

NextDelay ==
    \E attempt \in 0..(MaxAttempt - 1), is_overload \in BOOLEAN,
       k1 \in 0..JitterSteps, k2 \in 0..JitterSteps :
        CalculateRetryDelays(attempt, is_overload, k1, k2)

SpecDelay == InitDelay /\ [][NextDelay]_vars


(***************************************************************************)
(* estimate_confidence_from_json on its own: applied to a parsed pair      *)
(***************************************************************************)
\* plates: empty, the sentinel in either case and inside a longer text,
\* short ones, each pattern family with and without separator, near misses
ConfidencePlates ==
    {<<>>, <<"U", "N", "R", "E", "A", "D", "A", "B", "L", "E">>, <<"u", "n", "r", "e", "a", "d", "a", "b", "l", "e">>, <<"x", "U", "n", "r", "e", "a", "d", "a", "b", "l", "e", "x">>,
     <<"A", "B">>, <<"th_ko", "th_kho">>, <<"1", "2">>,
     <<"th_ko", "th_kho", " ", "1", "2", "3", "4">>, <<"th_ko", "1", "2", "3">>, <<"A", "B", "-", "1", "2", "3">>, <<"A", "B", "C", "D", "1", "2", "3", "4">>, <<"1", "th_ko", "th_kho", " ", "1", "2", "3", "4">>,
     <<"A", " ", "1", "2", "3", "4">>, <<"A", "B", " ", "1", "2">>, <<"A", "B", " ", " ", "1", "2", "3", "4">>, <<"a", "b", " ", "1", "2", "3", "4">>, <<"1", "th_ko", " ", "1", "2", "3", "4">>, <<"?", "?", "?">>}

ConfidenceProvinces ==
    {<<>>, <<"X">>, <<"X", "Y">>, <<"X", "Y", "Z">>, <<"U", "N", "R", "E", "A", "D", "A", "B", "L", "E">>, <<"u", "n", "r", "e", "a", "d", "a", "b", "l", "e">>, <<"C", "h", "i", "a", "n", "g", " ", "R", "a", "i">>}

EstimateConfidence(license_plate, province) ==
    /\ applied = None
    /\ applied' = Some([fn |-> "estimate_confidence_from_json",
                        license_plate_number |-> license_plate,
                        province |-> province,
                        result |-> estimate_confidence_from_json(
                            [license_plate_number |-> license_plate,
                             province |-> province])])
    /\ UNCHANGED <<use_image_url, max_retries, initial_retry_delay, temp_crops,
                   crop_writer, call, delays, detecting, detections, service_vars>>

NextConfidence ==
    \E license_plate \in ConfidencePlates, province \in ConfidenceProvinces :
        EstimateConfidence(license_plate, province)

SpecConfidence == Init /\ [][NextConfidence]_vars

(***************************************************************************)
(* parse_json_response on its own: applied to a JSON object text with two  *)
(* string values, plain and inside a code fence                            *)
(***************************************************************************)
\* the values of the two keys: with and without surrounding blanks, empty,
\* in lower case
PlateValues == {<<"th_ko", "th_kho", " ", "1", "2", "3", "4">>, <<" ", "a", "b", " ", "1", "2", " ">>, <<"a", "b", "-", "1", "2", "?">>, <<"u", "n", "r", "e", "a", "d", "a", "b", "l", "e">>, <<>>}

ProvinceValues == {<<"C", "h", "i", "a", "n", "g", " ", "R", "a", "i">>, <<" ", "C", "h", "i", "a", "n", "g", " ", "R", "a", "i", " ">>, <<"a", ",", " ", "b">>, <<>>}

\* a JSON object with the two keys, on one line, on several lines as the
\* prompt shows it, and with the keys in the other order
JsonObjectText(plate, province, layout) ==
    CASE layout = "line" ->
             <<"{", "\"", "l", "i", "c", "e", "n", "s", "e", "_", "p", "l", "a", "t", "e", "_", "n", "u", "m", "b", "e", "r", "\"", ":", " ", "\"">> \o plate \o <<"\"", ",", " ", "\"", "p", "r", "o", "v", "i", "n", "c", "e", "\"", ":", " ", "\"">>
                 \o province \o <<"\"", "}">>
      [] layout = "pretty" ->
             <<"{", "\n", " ", " ", "\"", "l", "i", "c", "e", "n", "s", "e", "_", "p", "l", "a", "t", "e", "_", "n", "u", "m", "b", "e", "r", "\"", ":", " ", "\"">> \o plate \o <<"\"", ",", "\n", " ", " ", "\"", "p", "r", "o", "v", "i", "n", "c", "e", "\"", ":", " ", "\"">>
                 \o province \o <<"\"", "\n", "}">>
      [] layout = "reversed" ->
             <<"{", "\"", "p", "r", "o", "v", "i", "n", "c", "e", "\"", ":", "\"">> \o province \o <<"\"", ",", "\"", "l", "i", "c", "e", "n", "s", "e", "_", "p", "l", "a", "t", "e", "_", "n", "u", "m", "b", "e", "r", "\"", ":", "\"">>
                 \o plate \o <<"\"", "}">>

JsonLayouts == {"line", "pretty", "reversed"}

\* the text inside a code fence: with the tag json or none, the fence lines
\* ended by a newline or not, blanks around the whole
InFence(text, fence) ==
    CASE fence = "json_lines" -> <<"backtick", "backtick", "backtick", "j", "s", "o", "n", "\n">> \o text \o <<"\n", "backtick", "backtick", "backtick">>
      [] fence = "bare_lines" -> <<"backtick", "backtick", "backtick", "\n">> \o text \o <<"\n", "backtick", "backtick", "backtick">>
      [] fence = "json_tight" -> <<"backtick", "backtick", "backtick", "j", "s", "o", "n">> \o text \o <<"backtick", "backtick", "backtick">>
      [] fence = "padded" -> <<" ", "\n", "backtick", "backtick", "backtick", "j", "s", "o", "n", " ", "\n">> \o text \o <<" ", "\n", "backtick", "backtick", "backtick", "\n">>

Fences == {"json_lines", "bare_lines", "json_tight", "padded"}

ParseJsonObject(plate, province, layout, fence) ==
    /\ applied = None
    /\ applied' = Some([fn |-> "parse_json_response",
                        license_plate_number |-> plate,
                        province |-> province,
                        layout |-> layout,
                        fence |-> fence,
                        plain |-> parse_json_response(
                                      JsonObjectText(plate, province, layout)),
                        fenced |-> parse_json_response(
                                       InFence(JsonObjectText(plate, province, layout),
                                               fence))])
    /\ UNCHANGED <<use_image_url, max_retries, initial_retry_delay, temp_crops,
                   crop_writer, call, delays, detecting, detections, service_vars>>

NextParse ==
    \E plate \in PlateValues, province \in ProvinceValues,
       layout \in JsonLayouts, fence \in Fences :
        ParseJsonObject(plate, province, layout, fence)

SpecParse == Init /\ [][NextParse]_vars

(***************************************************************************)
(* parse_json_response on texts that are not JSON: the path through        *)
(* _extract_from_text                                                      *)
(***************************************************************************)
ExtractPlateValues == {<<"A", "B", " ", "1", "2", "3", "4">>, <<"a", "b", " ", "1", "2">>, <<"th_ko", "th_kho", " ", "1", "2", "3", "4">>, <<>>}

ExtractProvinceValues == {<<"C", "h", "i", "a", "n", "g", " ", "R", "a", "i">>, <<"X">>, <<>>}

\* an answer that names the two keys and their quoted values without being
\* JSON: bare keys, an object after a word of prose, keys in upper case on
\* two lines, an object cut before its closing brace, the plate alone
NonJsonText(plate, province, style) ==
    CASE style = "bare" ->
             <<"l", "i", "c", "e", "n", "s", "e", "_", "p", "l", "a", "t", "e", "_", "n", "u", "m", "b", "e", "r", ":", " ", "\"">> \o plate \o <<"\"", ",", " ", "p", "r", "o", "v", "i", "n", "c", "e", ":", " ", "\"">>
                 \o province \o <<"\"">>
      [] style = "prose" ->
             <<"R", "e", "s", "u", "l", "t", ":", " ", "{", "\"", "l", "i", "c", "e", "n", "s", "e", "_", "p", "l", "a", "t", "e", "_", "n", "u", "m", "b", "e", "r", "\"", ":", " ", "\"">> \o plate
                 \o <<"\"", ",", " ", "\"", "p", "r", "o", "v", "i", "n", "c", "e", "\"", ":", " ", "\"">> \o province \o <<"\"", "}">>
      [] style = "upper" ->
             <<"L", "I", "C", "E", "N", "S", "E", "_", "P", "L", "A", "T", "E", "_", "N", "U", "M", "B", "E", "R", ":", " ", "\"">> \o plate \o <<"\"", "\n", "P", "R", "O", "V", "I", "N", "C", "E", ":", " ", "\"">>
                 \o province \o <<"\"">>
      [] style = "cut" ->
             <<"{", "\"", "l", "i", "c", "e", "n", "s", "e", "_", "p", "l", "a", "t", "e", "_", "n", "u", "m", "b", "e", "r", "\"", ":", " ", "\"">> \o plate \o <<"\"", ",", " ", "\"", "p", "r", "o", "v", "i", "n", "c", "e", "\"", ":", " ", "\"">>
                 \o province \o <<"\"">>
      [] style = "plate_only" ->
             <<"l", "i", "c", "e", "n", "s", "e", "_", "p", "l", "a", "t", "e", "_", "n", "u", "m", "b", "e", "r", ":", " ", "\"">> \o plate \o <<"\"">>

NonJsonStyles == {"bare", "prose", "upper", "cut", "plate_only"}

\* answers that name neither key
KeylessTexts == {<<"S", "o", "r", "r", "y", ",", " ", "n", "o", " ", "p", "l", "a", "t", "e", ".">>, <<" ", "\n">>, <<" ", " ">>, <<>>}

ExtractFromText(plate, province, style) ==
    /\ applied = None
    /\ applied' = Some([fn |-> "_extract_from_text",
                        license_plate_number |-> plate,
                        province |-> IF style = "plate_only" THEN <<>> ELSE province,
                        style |-> style,
                        result |-> parse_json_response(
                                       NonJsonText(plate, province, style))])
    /\ UNCHANGED <<use_image_url, max_retries, initial_retry_delay, temp_crops,
                   crop_writer, call, delays, detecting, detections, service_vars>>

ExtractFromKeylessText(text) ==
    /\ applied = None
    /\ applied' = Some([fn |-> "_extract_from_text",
                        license_plate_number |-> <<>>,
                        province |-> <<>>,
                        style |-> text,
                        result |-> parse_json_response(text)])
    /\ UNCHANGED <<use_image_url, max_retries, initial_retry_delay, temp_crops,
                   crop_writer, call, delays, detecting, detections, service_vars>>

NextExtract ==
    \/ \E plate \in ExtractPlateValues, province \in ExtractProvinceValues,
          style \in NonJsonStyles : ExtractFromText(plate, province, style)
    \/ \E text \in KeylessTexts : ExtractFromKeylessText(text)

SpecExtract == Init /\ [][NextExtract]_vars

(***************************************************************************)
(* The crop directory: read_text calls that store crops, and               *)
(* cleanup_temp_files                                                      *)
(***************************************************************************)
OlderThanHours == {0, 24}

\* cleanup_temp_files as it was before it was disabled, deleting the crops
\* older than the limit (all of them for a limit of 0): a faulty variant, for
\* comparison
CleanupTempFilesDeleting(older_than_hours) ==
    /\ applied' = Some([fn |-> "cleanup_temp_files",
                        older_than_hours |-> older_than_hours])
    /\ temp_crops' = IF use_image_url /\ older_than_hours = 0 THEN {} ELSE temp_crops
    /\ crop_writer' = IF use_image_url /\ older_than_hours = 0 THEN {} ELSE crop_writer
    /\ UNCHANGED <<use_image_url, max_retries, initial_retry_delay, call, delays,
                   detecting, detections, service_vars>>

\* cleanup_temp_files: both of its branches return without touching a file
CleanupTempFiles(older_than_hours) ==
    /\ applied' = Some([fn |-> "cleanup_temp_files",
                        older_than_hours |-> older_than_hours])
    /\ temp_crops' = temp_crops
    /\ crop_writer' = crop_writer
    /\ UNCHANGED <<use_image_url, max_retries, initial_retry_delay, call, delays,
                   detecting, detections, service_vars>>

StoreDetectionIds == {1, 2}

\* an answer that reads the plate and one that fails
StoreOutcomes ==
    {[kind |-> "response",
      text |-> Some(<<"{", "\"", "l", "i", "c", "e", "n", "s", "e", "_", "p", "l", "a", "t", "e", "_", "n", "u", "m", "b", "e", "r", "\"", ":", " ", "\"", "th_ko", "th_kho", " ", "1", "2", "3", "4", "\"", ",", " ", "\"", "p", "r", "o", "v", "i", "n", "c", "e", "\"", ":", " ", "\"", "C", "h", "i", "a", "n", "g", " ", "R", "a", "i", "\"", "}">>)],
     [kind |-> "error", text |-> <<"t", "i", "m", "e", "d", " ", "o", "u", "t">>]}

\* an engine that makes one attempt per call
InitStore ==
    /\ use_image_url \in BOOLEAN
    /\ max_retries = 1
    /\ initial_retry_delay = DefaultInitialRetryDelay
    /\ temp_crops = {}
    /\ crop_writer = {}
    /\ call = [c \in CallIds |-> IdleCall]
    /\ delays = None
    /\ applied = None
    /\ detecting = None
    /\ detections = <<>>
    /\ batch = None
    /\ consumer = NotCreated

NextStore ==
    \/ \E c \in CallIds :
          \/ \E d \in StoreDetectionIds, f \in OriginalFilenames :
                ReadText(c, Some(d), Some(f))
          \/ \E ts \in 1..MaxTimestamp, o \in {"written", "not_written", "raised"} :
                SaveTempImage(c, ts, o)
          \/ \E o \in StoreOutcomes : UrlAttempt(c, o)
          \/ Preprocess(c, TRUE)
          \/ \E o \in StoreOutcomes : Base64Attempt(c, o)
          \/ Return(c)
    \/ \E h \in OlderThanHours : CleanupTempFiles(h)

SpecStore == InitStore /\ [][NextStore]_vars

(***************************************************************************)
(* Two read_text calls in flight on one engine in reference mode           *)
(***************************************************************************)
ConcurrentCallIds == {"call", "other"}

InitConcurrent ==
    /\ use_image_url = TRUE
    /\ max_retries = 2
    /\ initial_retry_delay = DefaultInitialRetryDelay
    /\ temp_crops = {}
    /\ crop_writer = {}
    /\ call = [c \in ConcurrentCallIds |-> IdleCall]
    /\ delays = None
    /\ applied = None
    /\ detecting = None
    /\ detections = <<>>
    /\ batch = None
    /\ consumer = NotCreated

\* each call is for a first detection of an image named alike (two uploads
\* of a file of the same name, or the same image submitted twice); the
\* clock readings are those of int(time.time() * 1000)
NextConcurrent ==
    \E c \in ConcurrentCallIds :
        \/ \E f \in OriginalFilenames : ReadText(c, Some(1), Some(f))
        \/ \E ts \in 1..MaxTimestamp : SaveTempImage(c, ts, "written")
        \/ \E o \in StoreOutcomes : UrlAttempt(c, o)
        \/ UrlSleep(c, 0)
        \/ Return(c)

SpecConcurrent == InitConcurrent /\ [][NextConcurrent]_vars

(***************************************************************************)
(* detector.py: _process_detections and _read_plate_ocr, one read_text     *)
(* call per box                                                            *)
(***************************************************************************)
MaxBoxes == 2        \* yolo_result.boxes holds at most MaxBoxes boxes

\* image.shape[1] and image.shape[0]
ImageWidth == 20

ImageHeight == 20

\* boxes <<x1, y1, x2, y2>>: inside the image, of no area, and outside it
BoxCoordinates == {<<2, 2, 10, 6>>, <<8, 8, 8, 8>>, <<30, 30, 40, 40>>}

padding == 5

Max(a, b) == IF a >= b THEN a ELSE b

\* len(range(n)[start:stop]) for start >= 0: a negative stop counts from
\* the end
SliceLen(start, stop, n) ==
    LET hi == IF stop < 0 THEN Max(stop + n, 0) ELSE Min(stop, n)
        lo == Min(start, n)
    IN  Max(hi - lo, 0)

\* plate_img.size of the padded crop
PlateImgSize(bbox) ==
    SliceLen(Max(0, bbox[2] - padding), Min(ImageHeight, bbox[4] + padding), ImageHeight)
        * SliceLen(Max(0, bbox[1] - padding), Min(ImageWidth, bbox[3] + padding), ImageWidth)

\* dict.get(key, default) on a record
Get(record, key, default) == IF key \in DOMAIN record THEN record[key] ELSE default

FailedToCrop ==
    [text |-> <<>>, confidence |-> 0, engine |-> "gemini",
     error |-> <<"F", "a", "i", "l", "e", "d", " ", "t", "o", " ", "c", "r", "o", "p", " ", "i", "m", "a", "g", "e">>]

\* what _read_plate_ocr makes of the record read_text returned
OcrOfResult(result) ==
    [text |-> Get(result, "text", <<>>),
     confidence |-> Get(result, "confidence", 0),
     engine |-> "gemini",
     model |-> Get(result, "model", "unknown"),
     raw_response |-> Get(result, "raw_response", <<>>),
     mode |-> Get(result, "mode", "unknown"),
     image_path |-> Get(result, "image_path", <<>>)]

\* and of an exception read_text raised
OcrOfException(error) ==
    [text |-> <<>>, confidence |-> 0, engine |-> "gemini", error |-> error]

\* the head of a detection entry; class and score of the box are left out
Detection(i, bbox) == [detection_id |-> i, bbox |-> bbox]

\* the index of the box the loop is at
CurrentBox == Len(detections) + 1

InLoop ==
    /\ detecting # None
    /\ detecting[1].pc = "loop"
    /\ CurrentBox <= Len(detecting[1].boxes)

\* _process_detections is entered with the boxes of yolo_result
ProcessDetections(boxes, use_ocr) ==
    /\ detecting = None
    /\ detecting' = Some([pc |-> IF boxes = <<>> THEN "returned" ELSE "loop",
                          boxes |-> boxes, use_ocr |-> use_ocr])
    /\ detections' = <<>>
    /\ UNCHANGED <<use_image_url, max_retries, initial_retry_delay, temp_crops,
                   crop_writer, call, delays, applied, service_vars>>

\* a box when OCR is not used: the entry has no "ocr" key
BoxWithoutOcr ==
    /\ InLoop
    /\ ~detecting[1].use_ocr
    /\ detections' = Append(detections,
                            Detection(CurrentBox, detecting[1].boxes[CurrentBox]))
    /\ UNCHANGED <<use_image_url, max_retries, initial_retry_delay, temp_crops,
                   crop_writer, call, delays, applied, detecting, service_vars>>

\* a box whose crop is empty: _read_plate_ocr returns without calling read_text
BoxEmptyCrop ==
    /\ InLoop
    /\ detecting[1].use_ocr
    /\ PlateImgSize(detecting[1].boxes[CurrentBox]) = 0
    /\ detections' = Append(detections,
           SetKey(Detection(CurrentBox, detecting[1].boxes[CurrentBox]),
                  "ocr", FailedToCrop))
    /\ UNCHANGED <<use_image_url, max_retries, initial_retry_delay, temp_crops,
                   crop_writer, call, delays, applied, detecting, service_vars>>

\* _read_plate_ocr calls self.ocr.read_text for the box
BoxReadText(c) ==
    /\ InLoop
    /\ detecting[1].use_ocr
    /\ PlateImgSize(detecting[1].boxes[CurrentBox]) # 0
    /\ \E f \in OriginalFilenames : ReadText(c, Some(CurrentBox), Some(f))

\* _read_plate_ocr without its try/except: an exception of read_text ends
\* _process_detections with the entries made so far.  A faulty variant, for
\* comparison
BoxOcrDoneWithoutExcept(c) ==
    /\ InLoop
    /\ call[c].pc \in {"returned", "raised"}
    /\ IF call[c].pc = "returned"
       THEN /\ detections' = Append(detections,
                   SetKey(Detection(CurrentBox, detecting[1].boxes[CurrentBox]), "ocr",
                          OcrOfResult(call[c].result[1])))
            /\ detecting' = detecting
       ELSE /\ detections' = detections
            /\ detecting' = Some([detecting[1] EXCEPT !.pc = "returned"])
    /\ call' = [call EXCEPT ![c] = IdleCall]
    /\ UNCHANGED <<use_image_url, max_retries, initial_retry_delay, temp_crops,
                   crop_writer, delays, applied, service_vars>>

\* read_text is over: the entry of the box is appended with the record, or
\* with the exception the except branch of _read_plate_ocr caught
BoxOcrDone(c) ==
    /\ InLoop
    /\ call[c].pc \in {"returned", "raised"}
    /\ detections' = Append(detections,
           SetKey(Detection(CurrentBox, detecting[1].boxes[CurrentBox]), "ocr",
                  IF call[c].pc = "returned"
                  THEN OcrOfResult(call[c].result[1])
                  ELSE OcrOfException(call[c].raised[1])))
    /\ call' = [call EXCEPT ![c] = IdleCall]
    /\ UNCHANGED <<use_image_url, max_retries, initial_retry_delay, temp_crops,
                   crop_writer, delays, applied, detecting, service_vars>>

\* the loop is over: return detections
ReturnDetections ==
    /\ detecting # None
    /\ detecting[1].pc = "loop"
    /\ Len(detections) = Len(detecting[1].boxes)
    /\ detecting' = Some([detecting[1] EXCEPT !.pc = "returned"])
    /\ UNCHANGED <<use_image_url, max_retries, initial_retry_delay, temp_crops,
                   crop_writer, call, delays, applied, detections, service_vars>>

BoxSequences ==
    UNION {[1..n -> BoxCoordinates] : n \in 0..MaxBoxes}

\* an engine of one or two attempts per call
InitDetect ==
    /\ use_image_url \in BOOLEAN
    /\ max_retries \in {1, 2}
    /\ initial_retry_delay = DefaultInitialRetryDelay
    /\ temp_crops = {}
    /\ crop_writer = {}
    /\ call = [c \in CallIds |-> IdleCall]
    /\ delays = None
    /\ applied = None
    /\ detecting = None
    /\ detections = <<>>
    /\ batch = None
    /\ consumer = NotCreated

NextDetect ==
    \/ \E boxes \in BoxSequences, use_ocr \in BOOLEAN : ProcessDetections(boxes, use_ocr)
    \/ BoxWithoutOcr
    \/ BoxEmptyCrop
    \/ ReturnDetections
    \/ \E c \in CallIds :
          \/ BoxReadText(c)
          \/ \E o \in {"written", "raised"} : SaveTempImage(c, 1, o)
          \/ \E o \in StoreOutcomes : UrlAttempt(c, o)
          \/ UrlSleep(c, 0)
          \/ \E ok \in BOOLEAN : Preprocess(c, ok)
          \/ \E o \in StoreOutcomes : Base64Attempt(c, o)
          \/ Base64Sleep(c, 0)
          \/ BoxOcrDone(c)

SpecDetect == InitDetect /\ [][NextDetect]_vars
(***************************************************************************)
(* The classification of a failure, as the except blocks of the two retry  *)
(* loops apply it (gemini.py, lines 258-271 and 332-344)                   *)
(***************************************************************************)
ErrorPrefixes == {<<>>, <<"E", "r", "r", "o", "r", ":", " ">>, <<"4", "2", "9", " ">>}

ErrorCores ==
    {<<"5", "0", "3">>, <<"o", "v", "e", "r", "l", "o", "a", "d", "e", "d">>, <<"u", "n", "a", "v", "a", "i", "l", "a", "b", "l", "e">>, <<"r", "e", "s", "o", "u", "r", "c", "e", " ", "e", "x", "h", "a", "u", "s", "t", "e", "d">>,
     <<"q", "u", "o", "t", "a", " ", "e", "x", "c", "e", "e", "d", "e", "d">>, <<"r", "a", "t", "e", " ", "l", "i", "m", "i", "t">>,
     <<"U", "N", "A", "V", "A", "I", "L", "A", "B", "L", "E">>, <<"O", "v", "e", "r", "l", "o", "a", "d", "e", "d">>, <<"R", "E", "S", "O", "U", "R", "C", "E", " ", "E", "X", "H", "A", "U", "S", "T", "E", "D">>,
     <<"Q", "u", "o", "t", "a", " ", "E", "x", "c", "e", "e", "d", "e", "d">>, <<"R", "a", "t", "e", " ", "L", "i", "m", "i", "t">>, <<"T", "h", "e", " ", "m", "o", "d", "e", "l", " ", "i", "s", " ", "o", "v", "e", "r", "l", "o", "a", "d", "e", "d">>,
     <<"5", "0", " ", "3">>, <<"5", "0", "0">>, <<"o", "v", "e", "r", "l", "o", "a", "d">>, <<"R", "E", "S", "O", "U", "R", "C", "E", "_", "E", "X", "H", "A", "U", "S", "T", "E", "D">>,
     <<"q", "u", "o", "t", "a">>, <<"r", "a", "t", "e", "-", "l", "i", "m", "i", "t">>, <<"t", "i", "m", "e", "d", " ", "o", "u", "t">>, <<"c", "a", "r", "_", "p", "l", "a", "t", "e", "_", "1", "_", "1", "5", "0", "3", ".", "j", "p", "g">>,
     <<>>}

ErrorSuffixes == {<<>>, <<".", " ", "P", "l", "e", "a", "s", "e", " ", "t", "r", "y", " ", "a", "g", "a", "i", "n", " ", "l", "a", "t", "e", "r", ".">>}

\* str(e) of the exceptions an attempt can raise
ErrorDescriptions ==
    {p \o c \o s : p \in ErrorPrefixes, c \in ErrorCores, s \in ErrorSuffixes}

\* the except block: is_overload = self._is_overload_error(e), then
\* wait_time = self._calculate_retry_delay(attempt, is_overload)
ClassifyFailure(error, attempt, k) ==
    /\ applied = None
    /\ attempt < max_retries - 1
    /\ LET is_overload == _is_overload_error(error)
       IN  applied' = Some([fn |-> "_is_overload_error", error |-> error,
                            is_overload |-> is_overload, attempt |-> attempt,
                            wait_time |-> _calculate_retry_delay(
                                initial_retry_delay, attempt, is_overload, k)])
    /\ UNCHANGED <<use_image_url, max_retries, initial_retry_delay, temp_crops,
                   crop_writer, call, delays, detecting, detections, service_vars>>

InitClassify ==
    /\ use_image_url \in BOOLEAN
    /\ max_retries = MaxRetries
    /\ initial_retry_delay = DefaultInitialRetryDelay
    /\ temp_crops = {}
    /\ crop_writer = {}
    /\ call = [c \in CallIds |-> IdleCall]
    /\ delays = None
    /\ applied = None
    /\ detecting = None
    /\ detections = <<>>
    /\ batch = None
    /\ consumer = NotCreated

NextClassify ==
    \E error \in ErrorDescriptions, attempt \in 0..(MaxRetries - 2),
       k \in 0..JitterSteps :
        ClassifyFailure(error, attempt, k)

SpecClassify == InitClassify /\ [][NextClassify]_vars

(***************************************************************************)
(* Two runs of one read_text call, one after the other, on one engine: the *)
(* second run is given the arguments of the first                          *)
(***************************************************************************)
\* the answers of generate_content: a plate read, an overload failure and a
\* failure of another kind
TwinOutcomes ==
    StoreOutcomes \cup {[kind |-> "error", text |-> <<"5", "0", "3", " ", "U", "N", "A", "V", "A", "I", "L", "A", "B", "L", "E">>]}

FirstRun(detection_id, original_filename) ==
    ReadText("call", detection_id, original_filename)

SecondRun ==
    /\ call["call"].pc = "returned"
    /\ ReadText("other", call["call"].detection_id, call["call"].original_filename)

InitTwin ==
    /\ use_image_url \in BOOLEAN
    /\ max_retries \in 1..MaxRetries
    /\ initial_retry_delay = DefaultInitialRetryDelay
    /\ temp_crops = {}
    /\ crop_writer = {}
    /\ call = [c \in ConcurrentCallIds |-> IdleCall]
    /\ delays = None
    /\ applied = None
    /\ detecting = None
    /\ detections = <<>>
    /\ batch = None
    /\ consumer = NotCreated

NextTwin ==
    \/ \E d \in {None} \cup {Some(i) : i \in DetectionIds},
          f \in {Some(n) : n \in OriginalFilenames} : FirstRun(d, f)
    \/ SecondRun
    \/ \E c \in ConcurrentCallIds :
          \/ \E ts \in 1..MaxTimestamp, o \in {"written", "not_written", "raised"} :
                SaveTempImage(c, ts, o)
          \/ \E o \in TwinOutcomes : UrlAttempt(c, o)
          \/ \E k \in 0..JitterSteps : UrlSleep(c, k)
          \/ Preprocess(c, TRUE)
          \/ \E o \in TwinOutcomes : Base64Attempt(c, o)
          \/ \E k \in 0..JitterSteps : Base64Sleep(c, k)

SpecTwin == InitTwin /\ [][NextTwin]_vars

(***************************************************************************)
(* The two retry loops side by side: call "call" runs _call_gemini_with_url *)
(* on an engine built with use_image_url = True, call "other" runs          *)
(* _call_gemini_with_base64 on an engine built with use_image_url = False   *)
(* and the same max_retries.  generate_content is scripted: the answer to   *)
(* attempt i of the inline loop is the answer attempt i of the reference    *)
(* loop got.                                                                *)
(***************************************************************************)
\* read_text on the engine in reference mode
LoopsReadTextUrl(detection_id, original_filename) ==
    /\ use_image_url
    /\ ReadText("call", Some(detection_id), Some(original_filename))

\* GeminiOCR(use_image_url=False, max_retries=max_retries): the engine of
\* the calls that start from here on
ConstructInline ==
    /\ use_image_url
    /\ call["call"].pc = "save"
    /\ use_image_url' = FALSE
    /\ UNCHANGED <<max_retries, initial_retry_delay, temp_crops, crop_writer,
                   call, delays, other_vars>>

\* read_text on the engine in inline mode
LoopsReadTextInline ==
    /\ ~use_image_url
    /\ ReadText("other", None, None)

\* the inline loop is at the attempt the reference loop is at
LoopsAligned ==
    /\ call["call"].pc = "url_attempt"
    /\ call["other"].pc = "base64_attempt"
    /\ call["call"].attempt = call["other"].attempt

LoopsSaveTempImage(timestamp) ==
    /\ call["other"].pc = "base64_attempt"
    /\ SaveTempImage("call", timestamp, "written")

LoopsUrlAttempt(outcome) ==
    /\ LoopsAligned
    /\ UrlAttempt("call", outcome)

\* the scripted answer: what the reference loop got at this attempt
LoopsBase64Attempt ==
    /\ call["call"].pc \in {"url_sleep", "returned"}
    /\ call["call"].attempt = call["other"].attempt
    /\ Base64Attempt("other", call["call"].answer[1])

LoopsUrlSleep(k) == UrlSleep("call", k)

LoopsBase64Sleep(k) == Base64Sleep("other", k)

InitLoops ==
    /\ use_image_url = TRUE
    /\ max_retries \in 1..MaxRetries
    /\ initial_retry_delay = DefaultInitialRetryDelay
    /\ temp_crops = {}
    /\ crop_writer = {}
    /\ call = [c \in ConcurrentCallIds |-> IdleCall]
    /\ delays = None
    /\ applied = None
    /\ detecting = None
    /\ detections = <<>>
    /\ batch = None
    /\ consumer = NotCreated

NextLoops ==
    \/ \E d \in DetectionIds, f \in OriginalFilenames : LoopsReadTextUrl(d, f)
    \/ ConstructInline
    \/ LoopsReadTextInline
    \/ Preprocess("other", TRUE)
    \/ \E ts \in 1..MaxTimestamp : LoopsSaveTempImage(ts)
    \/ \E o \in ApiOutcomes : LoopsUrlAttempt(o)
    \/ LoopsBase64Attempt
    \/ \E k \in 0..JitterSteps : LoopsUrlSleep(k)
    \/ \E k \in 0..JitterSteps : LoopsBase64Sleep(k)

SpecLoops == InitLoops /\ [][NextLoops]_vars

(***************************************************************************)
(* The crop paths of two calls in reference mode, made by _read_plate_ocr  *)
(* for images of several names                                             *)
(***************************************************************************)
\* the image_path values given to _read_plate_ocr
ImagePaths == {<<"i", "n", "p", "u", "t", "/", "c", "a", "r", ".", "j", "p", "g">>, <<"i", "n", "p", "u", "t", "/", "c", "a", "r", ".", "p", "n", "g">>, <<"i", "n", "p", "u", "t", "/", "v", "a", "n", ".", "j", "p", "g">>}

PathDetectionIds == {1, 2}

\* Path(image_path).name
PathName(image_path) ==
    LET slashes == {i \in 1..Len(image_path) : image_path[i] = "/"}
    IN  IF slashes = {} THEN image_path
        ELSE SubSeq(image_path, SetMax(slashes) + 1, Len(image_path))

\* self.ocr.read_text(plate_img, detection_id=detection_id,
\*                    original_filename=Path(image_path).name)
ReadPlateOcr(c, detection_id, image_path) ==
    ReadText(c, Some(detection_id), Some(PathName(image_path)))

InitPaths ==
    /\ use_image_url = TRUE
    /\ max_retries \in 1..MaxRetries
    /\ initial_retry_delay = DefaultInitialRetryDelay
    /\ temp_crops = {}
    /\ crop_writer = {}
    /\ call = [c \in ConcurrentCallIds |-> IdleCall]
    /\ delays = None
    /\ applied = None
    /\ detecting = None
    /\ detections = <<>>
    /\ batch = None
    /\ consumer = NotCreated

NextPaths ==
    \E c \in ConcurrentCallIds :
        \/ \E d \in PathDetectionIds, p \in ImagePaths : ReadPlateOcr(c, d, p)
        \/ \E ts \in 1..MaxTimestamp : SaveTempImage(c, ts, "written")

SpecPaths == InitPaths /\ [][NextPaths]_vars

(***************************************************************************)
(* POST /detect/batch (main.py, detect_batch)                              *)
(***************************************************************************)
BatchPaths == {<<"i", "n", "p", "u", "t", "/", "c", "a", "r", "1", ".", "j", "p", "g">>, <<"i", "n", "p", "u", "t", "/", "c", "a", "r", "2", ".", "j", "p", "g">>}

\* the request bodies: lists of at most two paths
BatchRequests ==
    {<<>>} \cup {<<p>> : p \in BatchPaths}
           \cup {<<p, q>> : p \in BatchPaths, q \in BatchPaths}

\* what detector.detect gives for a path inside batch_detect: a result with
\* its total_plates, or an exception, which batch_detect turns into an
\* entry with "error"
DetectOutcomes == {[total_plates |-> 0], [total_plates |-> 1], [error |-> "ValueError"]}

HTTPException(status_code, detail) ==
    [class |-> "HTTPException", status_code |-> status_code, detail |-> detail]

\* the classes "except Exception" catches: HTTPException derives from
\* Exception
ExceptionClasses == {"HTTPException", "FileNotFoundError", "ValueError"}

NoFileDetail == "no image file found"

RECURSIVE SumPlates(_)
SumPlates(results) ==
    IF results = <<>> THEN 0
    ELSE (IF "total_plates" \in DOMAIN Head(results)
          THEN Head(results).total_plates ELSE 0) + SumPlates(Tail(results))

\* the body of the try block: the value returned or the exception raised
DetectBatchTry(image_paths, exists, outcome_of) ==
    LET existing_paths == SelectSeq(image_paths, LAMBDA p : p \in exists)
        results == [i \in 1..Len(existing_paths) |-> outcome_of[existing_paths[i]]]
        successful == Len(SelectSeq(results, LAMBDA r : "error" \notin DOMAIN r))
    IN  IF existing_paths = <<>>
        THEN [raised |-> TRUE, batch_detect_called |-> FALSE,
              exception |-> HTTPException(404, NoFileDetail)]
        ELSE [raised |-> FALSE, batch_detect_called |-> TRUE,
              value |-> [status |-> "success",
                         total_images |-> Len(results),
                         successful |-> successful,
                         failed |-> Len(results) - successful,
                         total_plates |-> SumPlates(results),
                         results |-> results]]

\* the answer of the handler: "except Exception as e" turns what the try
\* block raised into HTTPException(500, ... str(e))
DetectBatchAnswer(tried) ==
    IF tried.raised
    THEN IF tried.exception.class \in ExceptionClasses
         THEN [status_code |-> 500,
               detail |-> [prefix |-> "error", exception |-> tried.exception]]
         ELSE [status_code |-> tried.exception.status_code,
               detail |-> tried.exception.detail]
    ELSE [status_code |-> 200, body |-> tried.value]

DetectBatch(image_paths, exists, outcome_of) ==
    /\ LET tried == DetectBatchTry(image_paths, exists, outcome_of)
       IN  batch' = Some([image_paths |-> image_paths, exists |-> exists,
                          batch_detect_called |-> tried.batch_detect_called,
                          answer |-> DetectBatchAnswer(tried)])
    /\ UNCHANGED <<use_image_url, max_retries, initial_retry_delay, temp_crops,
                   crop_writer, call, delays, applied, detecting, detections,
                   consumer>>

NextBatch ==
    \E image_paths \in BatchRequests, exists \in SUBSET BatchPaths,
       outcome_of \in [BatchPaths -> DetectOutcomes] :
        DetectBatch(image_paths, exists, outcome_of)

SpecBatch == Init /\ [][NextBatch]_vars

(***************************************************************************)
(* The Kafka consumer (kafka_consumer.py, consume)                         *)
(***************************************************************************)
\* message values as sent, before value_deserializer; all of them are JSON
MessageTexts ==
    {<<"{", "\"", "i", "m", "a", "g", "e", "U", "r", "l", "\"", ":", " ", "\"", "h", "t", "t", "p", ":", "/", "/", "c", "a", "m", "/", "a", ".", "j", "p", "g", "\"", ",", " ", "\"", "u", "s", "e", "_", "o", "c", "r", "\"", ":", " ", "f", "a", "l", "s", "e", "}">>,
     <<"{", "\"", "i", "m", "a", "g", "e", "U", "r", "l", "\"", ":", " ", "\"", "h", "t", "t", "p", ":", "/", "/", "c", "a", "m", "/", "a", ".", "j", "p", "g", "\"", "}">>,
     <<"{", "\"", "u", "s", "e", "_", "o", "c", "r", "\"", ":", " ", "t", "r", "u", "e", "}">>,
     <<"{", "\"", "i", "m", "a", "g", "e", "U", "r", "l", "\"", ":", " ", "\"", "\"", "}">>,
     <<"{", "\"", "i", "m", "a", "g", "e", "U", "r", "l", "\"", ":", " ", "n", "u", "l", "l", "}">>,
     <<"[", "]">>,
     <<"n", "u", "l", "l">>,
     <<"\"", "h", "t", "t", "p", ":", "/", "/", "c", "a", "m", "/", "a", ".", "j", "p", "g", "\"">>}

\* what requests.get, the write of temp_image.jpg and detector.detect do
\* for one message
MessageOutcomes ==
    [download : {"200", "404", "ConnectionError"},
     write : {"written", "FileNotFoundError"},
     detect : {"result", "FileNotFoundError", "ValueError"}]

\* "if image_url:" for the values the messages carry, a string or None
Truthy(value) == IF value.t = "str" THEN value.v # <<>> ELSE value.t # "NoneType"

LogEntry(level, what) == [escaped |-> FALSE, level |-> level, what |-> what]

\* the body of "async for msg in consumer" for one message: the line it
\* logs, or the exception that leaves the loop
LoopBody(payload, outcome) ==
    IF payload.t # "dict"
    THEN [escaped |-> TRUE,
          exception |-> AttributeErrorText(TypeNameText(payload.t), <<"g", "e", "t">>)]
    ELSE IF ~Truthy(DictGet(payload.v, <<"i", "m", "a", "g", "e", "U", "r", "l">>, [t |-> "NoneType"]))
    THEN LogEntry("warning", "Skipping message without imageUrl")
    ELSE IF outcome.download = "ConnectionError"
    THEN LogEntry("error", "Error during detection")
    ELSE IF outcome.download # "200"
    THEN LogEntry("warning", "Failed to download image from URL")
    ELSE IF outcome.write = "FileNotFoundError" \/ outcome.detect = "FileNotFoundError"
    THEN LogEntry("warning", "File not found for detection")
    ELSE IF outcome.detect = "ValueError"
    THEN LogEntry("error", "Error during detection")
    ELSE LogEntry("info", "Detection finished")

\* consume(detector) up to the end of the first try block
ConsumerStart(ok) ==
    /\ consumer.pc = "not_created"
    /\ consumer' = IF ok
                   THEN [consumer EXCEPT !.pc = "running", !.started = TRUE]
                   ELSE [consumer EXCEPT !.pc = "returned", !.ended_by = "start failed"]
    /\ UNCHANGED <<use_image_url, max_retries, initial_retry_delay, temp_crops,
                   crop_writer, call, delays, applied, detecting, detections,
                   batch>>

\* one message; an exception that leaves the loop runs the finally block
ConsumeMessage(text, outcome) ==
    /\ consumer.pc = "running"
    /\ Len(consumer.log) < MaxMessages
    /\ LET done == LoopBody(JsonLoads(text).val, outcome)
       IN  consumer' =
               IF done.escaped
               THEN [consumer EXCEPT !.pc = "raised", !.ended_by = "message",
                                     !.stop_called = TRUE,
                                     !.log = Append(@, done)]
               ELSE [consumer EXCEPT !.log = Append(@, done)]
    /\ UNCHANGED <<use_image_url, max_retries, initial_retry_delay, temp_crops,
                   crop_writer, call, delays, applied, detecting, detections,
                   batch>>

\* the iteration ends, the consumer having been stopped, or raises an
\* error of the client; the finally block runs
EndIteration(how) ==
    /\ consumer.pc = "running"
    /\ consumer' = [consumer EXCEPT
                        !.pc = IF how = "stopped" THEN "returned" ELSE "raised",
                        !.ended_by = how,
                        !.stop_called = TRUE]
    /\ UNCHANGED <<use_image_url, max_retries, initial_retry_delay, temp_crops,
                   crop_writer, call, delays, applied, detecting, detections,
                   batch>>

NextConsume ==
    \/ \E ok \in BOOLEAN : ConsumerStart(ok)
    \/ \E text \in MessageTexts, outcome \in MessageOutcomes :
          ConsumeMessage(text, outcome)
    \/ \E how \in {"stopped", "KafkaError"} : EndIteration(how)

SpecConsume == Init /\ [][NextConsume]_vars

(***************************************************************************)
(* Observations on a call, used to state the properties                    *)
(***************************************************************************)
Returned(c) == call[c].pc = "returned"

Record(c) == call[c].result[1]

History(c) == call[c].history

AttemptIndexes(c) == {i \in DOMAIN History(c) : History(c)[i].ev = "attempt"}

\* remote API calls made so far in the call
ApiCalls(c) == Cardinality({i \in AttemptIndexes(c) : History(c)[i].api})

FailedAttempts(c) == Cardinality({i \in AttemptIndexes(c) : History(c)[i].failed})

SomeAttemptSucceeded(c) == \E i \in AttemptIndexes(c) : ~History(c)[i].failed

AllAttemptsFailed(c) == FailedAttempts(c) = max_retries /\ ~SomeAttemptSucceeded(c)

\* the crop write of the call ended with this outcome
Stored(c, outcome) ==
    \E i \in DOMAIN History(c) :
        History(c)[i].ev = "save" /\ History(c)[i].outcome = outcome

\* the call was given both identifiers
IdentifiersGiven(c) ==
    call[c].detection_id # None /\ call[c].original_filename # None

\* the call slept with this classification
SleptAs(c, is_overload) ==
    \E i \in DOMAIN History(c) :
        History(c)[i].ev = "sleep" /\ History(c)[i].is_overload = is_overload

HasKey(record, key) == key \in DOMAIN record

\* str(e) of the failure an answer of the environment makes of an attempt
FailureOf(answer) ==
    IF answer.kind = "response" THEN TryBodyOf(answer).error ELSE answer.text

(***************************************************************************)
(* Properties                                                              *)
(***************************************************************************)

\* C1: every read_text call ends by returning a record; no exception ever
\* leaves it, whatever fails during the call.
C1_NeverRaises == \A c \in CallIds : call[c].pc # "raised"

C3_FallbackOnReferenceFailure ==
    \A c \in CallIds :
        (/\ Returned(c)
         /\ use_image_url /\ IdentifiersGiven(c)
         /\ \/ Stored(c, "raised")
            \/ \E i \in AttemptIndexes(c) :
                  /\ History(c)[i].mode = "url"
                  /\ History(c)[i].failed
                  /\ History(c)[i].attempt = max_retries - 1)
        => (HasKey(Record(c), "fallback") /\ Record(c).fallback = TRUE)

\* C4: with use_image_url and both identifiers, a failure to store the crop
\* gives a final record with mode "base64" and fallback = true, and the
\* record reports an error only if the inline attempts all failed.
C4_StorageFailureFallsBack ==
    \A c \in CallIds :
        (/\ Returned(c)
         /\ use_image_url /\ IdentifiersGiven(c)
         /\ (Stored(c, "raised") \/ Stored(c, "not_written")))
        => /\ Record(c).mode = "base64"
           /\ HasKey(Record(c), "fallback") /\ Record(c).fallback = TRUE
           /\ HasKey(Record(c), "error") =>
                  \E i \in AttemptIndexes(c) :
                      /\ History(c)[i].mode = "base64"
                      /\ History(c)[i].failed
                      /\ History(c)[i].attempt = max_retries - 1

\* C5: a call writes a crop, makes reference-mode attempts or returns mode
\* "url" only when use_image_url is true and both identifiers are given; in
\* every other case it writes no crop, attempts in inline mode only and the
\* record has mode "base64".
C5_ModeSelection ==
    \A c \in CallIds :
        LET reference == use_image_url /\ IdentifiersGiven(c)
            wrote == \E i \in DOMAIN History(c) : History(c)[i].ev = "save"
            url_attempt == \E i \in AttemptIndexes(c) : History(c)[i].mode = "url"
        IN  /\ (wrote \/ url_attempt) => reference
            /\ (Returned(c) /\ Record(c).mode = "url") => reference
            /\ (Returned(c) /\ ~reference) =>
                   (Record(c).mode = "base64" /\ ~wrote /\ ~url_attempt)

\* C5 witness: an engine that prefers reference mode returned an inline-mode
\* record for a call without detection id.
C5_Witness ==
    \E c \in CallIds :
        /\ Returned(c) /\ use_image_url
        /\ call[c].detection_id = None /\ call[c].original_filename # None
        /\ Record(c).mode = "base64"

\* C6: in every returned record, confidence is 0.0 exactly when the plate is
\* empty or contains UNREADABLE.
C6_ZeroConfidence ==
    \A c \in CallIds :
        Returned(c) =>
            (Record(c).confidence = 0 <=>
                (\/ Record(c).license_plate_number = <<>>
                 \/ Contains(Record(c).license_plate_number, Unreadable)))

\* C6 witness: a successful attempt returned a record whose plate is the
\* sentinel, read from a lower-case answer.
C6_Witness ==
    \E c \in CallIds :
        /\ Returned(c) /\ SomeAttemptSucceeded(c)
        /\ Record(c).license_plate_number = Unreadable
        /\ Record(c).confidence = 0

\* C7: the record of a call in which an attempt succeeded has mode "url" or
\* "base64" and no error field; a record has an error field only when all
\* max_retries attempts of the call failed.
C7_ModeAndError ==
    \A c \in CallIds :
        Returned(c) =>
            /\ SomeAttemptSucceeded(c) =>
                   /\ HasKey(Record(c), "mode")
                   /\ Record(c).mode \in {"url", "base64"}
                   /\ ~HasKey(Record(c), "error")
            /\ HasKey(Record(c), "error") => AllAttemptsFailed(c)

\* C7 witness: a reference-mode call succeeded on its second attempt.
C7_Witness ==
    \E c \in CallIds :
        /\ Returned(c) /\ SomeAttemptSucceeded(c)
        /\ FailedAttempts(c) = 1
        /\ Record(c).mode = "url"

\* C8: in every returned record, attempts is the number of remote API calls
\* made during the call, and that number is at most max_retries.
C8_AttemptsCountApiCalls ==
    \A c \in CallIds :
        Returned(c) =>
            (Record(c).attempts = ApiCalls(c) /\ ApiCalls(c) <= max_retries)

\* C9: whatever text the remote API answers, parsing does not raise and the
\* attempt does not count as failed.
C9_ParsingNeverFailsAttempt ==
    \A c \in CallIds :
        (/\ call[c].answer # None
         /\ call[c].answer[1].kind = "response"
         /\ call[c].answer[1].text # None)
        => \A i \in AttemptIndexes(c) :
               i = Len(History(c)) => ~History(c)[i].failed

Applied(fn) == applied # None /\ applied[1].fn = fn

\* C11: estimate_confidence_from_json returns 0.0 for an empty plate or one
\* containing UNREADABLE in any case; else 0.3 for a plate shorter than 3,
\* without province bonus; else 0.8 when a pattern family matches and 0.5 when
\* none does, plus 0.15 exactly when the province is non-empty, is not the
\* sentinel and is longer than 2; the value is one of 0, 0.3, 0.5, 0.65, 0.8,
\* 0.95.
C11_ConfidenceRules ==
    Applied("estimate_confidence_from_json") =>
        LET plate == applied[1].license_plate_number
            province == applied[1].province
            result == applied[1].result
            unreadable == Contains(StrUpper(plate), Unreadable)
            matches == thai_pattern(plate) \/ english_pattern(plate)
                           \/ new_format_pattern(plate)
            bonus == province # <<>> /\ province # Unreadable /\ Len(province) > 2
        IN  /\ result \in {0, 30, 50, 65, 80, 95}
            /\ (plate = <<>> \/ unreadable) => result = 0
            /\ (plate # <<>> /\ ~unreadable /\ Len(plate) < 3) => result = 30
            /\ (plate # <<>> /\ ~unreadable /\ Len(plate) >= 3) =>
                   result = (IF matches THEN 80 ELSE 50) + (IF bonus THEN 15 ELSE 0)

\* C11 witness: a short plate with a province that would earn the bonus.
C11_Witness ==
    /\ Applied("estimate_confidence_from_json")
    /\ applied[1].license_plate_number = <<"A", "B">>
    /\ applied[1].province = <<"C", "h", "i", "a", "n", "g", " ", "R", "a", "i">>
    /\ applied[1].result = 30

C13_ExtractsValueAfterKey ==
    Applied("_extract_from_text") =>
        /\ ~applied[1].result.raised
        /\ applied[1].result.parsed =
               [license_plate_number |->
                    StrUpper(StrStrip(applied[1].license_plate_number)),
                province |-> StrStrip(applied[1].province)]

\* C14: no step removes a name from the crop directory, and a
\* cleanup_temp_files call leaves the directory as it was, whatever its
\* older_than_hours.
C14_CropsNeverDeleted ==
    [][/\ temp_crops \subseteq temp_crops'
       /\ (\E h \in OlderThanHours : CleanupTempFiles(h)) => temp_crops' = temp_crops]_vars

\* C14 witness: cleanup_temp_files ran with a limit of 0 hours on an engine in
\* reference mode after two crops were stored, and both are still there.
C14_Witness ==
    /\ use_image_url
    /\ Applied("cleanup_temp_files")
    /\ applied[1].older_than_hours = 0
    /\ Cardinality(temp_crops) >= 2

C16_AttemptsTimeOut == \A c \in CallIds : call[c].pc # "blocked"

\* the entry _process_detections appended last
LastDetection(list) == list[Len(list)]

\* C17: the entries made are those of the first boxes, in order, one per box,
\* each with its OCR result, and all boxes have an entry when
\* _process_detections returns; the entry of a box with an empty crop, of a
\* box whose read_text raised and of a box whose retries were exhausted has
\* OCR text "" and confidence 0.0.
C17_OneEntryPerBox ==
    /\ [](detecting # None =>
              /\ Len(detections) <= Len(detecting[1].boxes)
              /\ \A i \in 1..Len(detections) :
                     /\ detections[i].detection_id = i
                     /\ detections[i].bbox = detecting[1].boxes[i]
                     /\ detecting[1].use_ocr <=> HasKey(detections[i], "ocr")
              /\ detecting[1].pc = "returned" =>
                     Len(detections) = Len(detecting[1].boxes))
    /\ [][(\/ BoxEmptyCrop
           \/ \E c \in CallIds :
                 /\ BoxOcrDone(c)
                 /\ \/ call[c].pc = "raised"
                    \/ HasKey(call[c].result[1], "error"))
          => /\ LastDetection(detections').ocr.text = <<>>
             /\ LastDetection(detections').ocr.confidence = 0]_vars

\* C17 witness: _process_detections returned two entries, the first for a box
\* whose read_text raised, the second with a plate that was read.
C17_Witness ==
    /\ detecting # None
    /\ detecting[1].pc = "returned"
    /\ detecting[1].use_ocr
    /\ Len(detections) = 2
    /\ detections[1].ocr = OcrOfException(PreprocessErrorText)
    /\ detections[2].ocr.text # <<>>
    /\ detections[2].ocr.confidence > 0

SleepIndexes(c) == {i \in DOMAIN History(c) : History(c)[i].ev = "sleep"}

\* C18: the attempts of a call carry the indexes 0, 1, 2, ... in that order;
\* an attempt that succeeded is the last event of the call, which has
\* returned a record with attempts = index + 1: no attempt and no sleep
\* follows a success.
C18_SuccessEndsLoop ==
    \A c \in CallIds :
        /\ \A i \in AttemptIndexes(c) :
               History(c)[i].attempt =
                   Cardinality({j \in AttemptIndexes(c) : j < i})
        /\ \A i \in AttemptIndexes(c) :
               ~History(c)[i].failed =>
                   /\ i = Len(History(c))
                   /\ Returned(c)
                   /\ Record(c).attempts = History(c)[i].attempt + 1
                   /\ ~HasKey(Record(c), "error")

\* C18 witness: a call returned after its third attempt succeeded.
C18_Witness ==
    \E c \in CallIds :
        /\ Returned(c)
        /\ Cardinality(AttemptIndexes(c)) = 3
        /\ SomeAttemptSucceeded(c)
        /\ Record(c).attempts = 3

\* C19: a sleep stands right after a failed attempt of the same index, which
\* is below max_retries - 1; an attempt of index n > 0 stands right after the
\* sleep of index n - 1; the failure of attempt max_retries - 1 is the last
\* event of the call, which has returned; a returned call slept once less
\* than it made attempts.
C19_OneSleepBetweenAttempts ==
    \A c \in CallIds :
        /\ \A i \in SleepIndexes(c) :
               /\ i > 1
               /\ History(c)[i - 1].ev = "attempt"
               /\ History(c)[i - 1].failed
               /\ History(c)[i - 1].attempt = History(c)[i].attempt
               /\ History(c)[i].attempt < max_retries - 1
        /\ \A i \in AttemptIndexes(c) :
               /\ History(c)[i].attempt > 0 =>
                      /\ History(c)[i - 1].ev = "sleep"
                      /\ History(c)[i - 1].attempt = History(c)[i].attempt - 1
               /\ (History(c)[i].failed /\ History(c)[i].attempt = max_retries - 1) =>
                      (i = Len(History(c)) /\ Returned(c))
               /\ (/\ History(c)[i].failed
                   /\ History(c)[i].attempt < max_retries - 1
                   /\ i = Len(History(c))) =>
                      call[c].pc \in {"url_sleep", "base64_sleep"}
        /\ Returned(c) =>
               Cardinality(SleepIndexes(c)) = Cardinality(AttemptIndexes(c)) - 1

\* C19 witness: all three attempts of a call failed and it slept twice.
C19_Witness ==
    \E c \in CallIds :
        /\ Returned(c)
        /\ max_retries = 3
        /\ FailedAttempts(c) = 3
        /\ Cardinality(SleepIndexes(c)) = 2

\* C20: the sleep after failed attempt n has the base delay
\* initial_retry_delay * 2.5^n when the failure of attempt n is an overload
\* and initial_retry_delay * 2^n when it is not, whatever the earlier
\* failures were; the slept time is the base plus at most a quarter of it,
\* capped at 60 seconds; the overload base is not below the other.
C20_SleepBaseByClassification ==
    \A c \in CallIds :
        (/\ Len(History(c)) > 0
         /\ History(c)[Len(History(c))].ev = "sleep"
         /\ call[c].answer[1] # NoAnswer) =>
            LET sleep == History(c)[Len(History(c))]
                n == sleep.attempt
                overload == _is_overload_error(FailureOf(call[c].answer[1]))
                base == IF overload
                        THEN (initial_retry_delay * Pow(5, n)) \div Pow(2, n)
                        ELSE initial_retry_delay * Pow(2, n)
            IN  /\ sleep.is_overload = overload
                /\ sleep.base = base
                /\ call[c].wait_time >= Min(base, 60000)
                /\ call[c].wait_time <= Min(base + base \div 4, 60000)
                /\ (initial_retry_delay * Pow(5, n)) \div Pow(2, n)
                       >= initial_retry_delay * Pow(2, n)

\* C20 witness: a call whose first failure was an overload and whose second
\* was not has just slept for the second, on the base of 2^1.
C20_Witness ==
    \E c \in CallIds :
        /\ Len(History(c)) = 4
        /\ History(c)[2].ev = "sleep" /\ History(c)[2].is_overload
        /\ History(c)[2].base = initial_retry_delay
        /\ History(c)[4].ev = "sleep" /\ ~History(c)[4].is_overload
        /\ History(c)[4].base = 2 * initial_retry_delay

\* C21: a failure is classified as overload exactly when its lower-cased
\* description contains one of 503, overloaded, unavailable, resource
\* exhausted, quota exceeded, rate limit; a failure so classified waits on
\* the overload base, every other failure on the standard base.
C21_OverloadIffKeyword ==
    Applied("_is_overload_error") =>
        LET a == applied[1]
            low == StrLower(a.error)
            named == \/ Contains(low, <<"5", "0", "3">>)
                     \/ Contains(low, <<"o", "v", "e", "r", "l", "o", "a", "d", "e", "d">>)
                     \/ Contains(low, <<"u", "n", "a", "v", "a", "i", "l", "a", "b", "l", "e">>)
                     \/ Contains(low, <<"r", "e", "s", "o", "u", "r", "c", "e", " ", "e", "x", "h", "a", "u", "s", "t", "e", "d">>)
                     \/ Contains(low, <<"q", "u", "o", "t", "a", " ", "e", "x", "c", "e", "e", "d", "e", "d">>)
                     \/ Contains(low, <<"r", "a", "t", "e", " ", "l", "i", "m", "i", "t">>)
            standard == initial_retry_delay * Pow(2, a.attempt)
            aggressive == (initial_retry_delay * Pow(5, a.attempt))
                              \div Pow(2, a.attempt)
            base == IF named THEN aggressive ELSE standard
        IN  /\ a.is_overload <=> named
            /\ a.wait_time >= Min(base, 60000)
            /\ a.wait_time <= Min(base + base \div 4, 60000)

\* a description that names a keyword in capitals only was classified as
\* overload, after a first failure
C21_Witness ==
    /\ Applied("_is_overload_error")
    /\ applied[1].error = <<"E", "r", "r", "o", "r", ":", " ", "R", "a", "t", "e", " ", "L", "i", "m", "i", "t", ".", " ", "P", "l", "e", "a", "s", "e", " ", "t", "r", "y", " ", "a", "g", "a", "i", "n", " ", "l", "a", "t", "e", "r", ".">>
    /\ applied[1].is_overload
    /\ applied[1].attempt = 1

\* the events of a call other than its sleeps: the crop write and the
\* attempts, each with its outcome
OutcomesOf(c) == SelectSeq(History(c), LAMBDA e : e.ev # "sleep")

SleepsOf(c) == SelectSeq(History(c), LAMBDA e : e.ev = "sleep")

\* the two runs saw the same outcomes: the same crop path, the same outcome
\* at every step both made, and the same answer to the last attempt when
\* both ended on a success or both on a failure
SameOutcomes(a, b) ==
    LET oa == OutcomesOf(a)
        ob == OutcomesOf(b)
        n == Min(Len(oa), Len(ob))
    IN  /\ call[a].temp_path = call[b].temp_path
        /\ \A i \in 1..n : oa[i] = ob[i]
        /\ Len(oa) > 0 /\ Len(ob) > 0
        /\ oa[Len(oa)].ev = "attempt" /\ ob[Len(ob)].ev = "attempt"
        /\ oa[Len(oa)].failed = ob[Len(ob)].failed
        /\ IF oa[Len(oa)].failed
           THEN call[a].last_error = call[b].last_error
           ELSE call[a].answer = call[b].answer

\* C22: two runs of a call that saw the same outcomes, whatever the
\* classification of the failures before the last, made the same number of
\* attempts and returned the same record (the model's records leave
\* processing_time out).
C22_ClassificationOnlyChangesSleeps ==
    (Returned("call") /\ Returned("other") /\ SameOutcomes("call", "other")) =>
        /\ Len(OutcomesOf("call")) = Len(OutcomesOf("other"))
        /\ call["call"].result = call["other"].result

\* C22 witness: the two runs failed once and then read the plate; the first
\* failure was an overload for one run and not for the other.
C22_Witness ==
    /\ Returned("call") /\ Returned("other") /\ SameOutcomes("call", "other")
    /\ Len(SleepsOf("call")) = 1 /\ Len(SleepsOf("other")) = 1
    /\ SleepsOf("call")[1].is_overload
    /\ ~SleepsOf("other")[1].is_overload
    /\ call["call"].result = call["other"].result
    /\ call["call"].result[1]["attempts"] = 2

\* an attempt or a sleep of a loop without the name of the loop's mode
LoopEvent(e) ==
    IF e.ev = "attempt"
    THEN [ev |-> "attempt", attempt |-> e.attempt, failed |-> e.failed]
    ELSE e

\* the attempts and sleeps of a call, in order
LoopTrace(c) ==
    LET steps == SelectSeq(History(c), LAMBDA e : e.ev # "save")
    IN  [i \in 1..Len(steps) |-> LoopEvent(steps[i])]

IsPrefix(s, t) == Len(s) <= Len(t) /\ \A i \in 1..Len(s) : s[i] = t[i]

\* two records agree on every field but mode and image_path
AgreeButModeAndPath(r, s) ==
    \A key \in (DOMAIN r \cup DOMAIN s) \ {"mode", "image_path"} :
        /\ key \in DOMAIN r
        /\ key \in DOMAIN s
        /\ r[key] = s[key]

\* C23: given the same max_retries and the same answers attempt by attempt,
\* the inline loop and the reference loop make the same attempts and sleeps
\* (same attempt indexes, same classification and base of every sleep), the
\* one that is behind repeating the steps of the other; the inline loop ends
\* when and as the reference loop ends, and returns a record that agrees
\* with the reference loop's on every field but mode and image_path.
C23_LoopsAgree ==
    /\ \/ IsPrefix(LoopTrace("other"), LoopTrace("call"))
       \/ IsPrefix(LoopTrace("call"), LoopTrace("other"))
    /\ Returned("other") =>
           /\ Returned("call")
           /\ LoopTrace("other") = LoopTrace("call")
           /\ AgreeButModeAndPath(Record("call"), Record("other"))
           /\ Record("call")["mode"] = "url"
           /\ Record("other")["mode"] = "base64"

\* C23 witness: both loops failed on an overload, slept, and then read the
\* plate at their second attempt.
C23_Witness ==
    /\ Returned("call") /\ Returned("other")
    /\ Len(LoopTrace("other")) = 3
    /\ LoopTrace("other")[2].ev = "sleep"
    /\ LoopTrace("other")[2].is_overload
    /\ LoopTrace("call")[2].is_overload
    /\ Record("other")["attempts"] = 2
    /\ Record("call")["attempts"] = 2
    /\ "error" \notin DOMAIN Record("other")

\* the attempts of a call, in order
AttemptsOf(c) == SelectSeq(History(c), LAMBDA e : e.ev = "attempt")

\* C24: a call that switched to inline mode runs one inline loop (attempts
\* 0, 1, 2, ... in inline mode only, none in reference mode) and ends by
\* returning that loop's record, with mode "base64" and fallback true; a
\* record carries fallback only on an engine with use_image_url true.
C24_SingleHopFallback ==
    \A c \in CallIds :
        /\ call[c].fallback =>
               /\ use_image_url
               /\ call[c].pc \in {"preprocess", "base64_attempt", "base64_sleep",
                                  "blocked", "returned"}
               /\ \A i \in 1..Len(AttemptsOf(c)) :
                      /\ AttemptsOf(c)[i].mode = "base64"
                      /\ AttemptsOf(c)[i].attempt = i - 1
               /\ Returned(c) =>
                      /\ Record(c)["mode"] = "base64"
                      /\ "fallback" \in DOMAIN Record(c)
                      /\ Record(c)["fallback"] = TRUE
        /\ (Returned(c) /\ "fallback" \in DOMAIN Record(c)) =>
               use_image_url /\ call[c].fallback

\* the call has written its crop
WroteCrop(c) ==
    /\ Len(History(c)) > 0
    /\ History(c)[1].ev = "save"
    /\ History(c)[1].outcome = "written"

\* the source filename, detection id and millisecond timestamp of the write
CropKey(c) ==
    <<call[c].original_filename[1], call[c].detection_id[1], History(c)[1].timestamp>>

\* C25: two reference-mode calls whose source filename, detection id or
\* millisecond timestamp differ wrote their crops to different paths; two
\* calls wrote the same path only when all three are the same.
C25_DistinctKeysDistinctPaths ==
    (WroteCrop("call") /\ WroteCrop("other")) =>
        (CropKey("call") # CropKey("other")
             <=> call["call"].temp_path # call["other"].temp_path)

\* C26: a POST /detect/batch request none of whose paths exists is answered
\* with status 404, and batch_detect is not called for it.
C26_NoExistingPathIs404 ==
    (batch # None /\ \A i \in 1..Len(batch[1].image_paths) :
                         batch[1].image_paths[i] \notin batch[1].exists) =>
        /\ batch[1].answer.status_code = 404
        /\ ~batch[1].batch_detect_called

\* C27: no message ends the consumption: every message taken is logged and
\* the loop goes on to the next one; and a consume() that ended after a
\* successful start has called consumer.stop().
C27_NoMessageEndsConsumption ==
    /\ consumer.ended_by # "message"
    /\ \A i \in 1..Len(consumer.log) :
           /\ ~consumer.log[i].escaped
           /\ consumer.log[i].level \in {"info", "warning", "error"}
    /\ (consumer.started /\ consumer.pc \in {"returned", "raised"}) =>
           consumer.stop_called
====
